---- MODULE Spec2Model ----
(***************************************************************************)
(* A model of the call-dispatch core of drpc: the server-side interceptor  *)
(* chain composer (drpcmux/interceptor.go), the dispatcher Mux.HandleRPC   *)
(* (drpcmux/handle_rpc.go), the client call wrapper ClientConn with        *)
(* its dial options and chain composer (drpcclient), and the metadata a    *)
(* context carries (drpcmetadata).                                         *)
(*                                                                         *)
(* Spec is one HandleRPC call on a Mux, SpecClient one Invoke or NewStream *)
(* call on a ClientConn, SpecAll either of the two.  SpecConcurrentServer  *)
(* and SpecConcurrentClient are two such calls running concurrently on one *)
(* Mux or ClientConn, SpecMeta the drpcmetadata operations on contexts.    *)
(* In these the interceptors do what those of the tests do; in             *)
(* SpecAnyBehaviour a HandleRPC call goes through interceptors that do     *)
(* whatever their type allows, and SpecRepeated adds such a call on a      *)
(* ClientConn and calls made one after the other.                          *)
(*                                                                         *)
(* Function values of the Go code (interceptors, handlers, closures) are   *)
(* records tagged by "kind"; calling one pushes a frame on an explicit     *)
(* call stack.  User code (interceptors, the receiver) and the stream are  *)
(* external: what they do is a nondeterministic choice made when they run. *)
(* Every observable effect is appended to the trace `events`.              *)
(***************************************************************************)
EXTENDS Integers, Sequences, FiniteSets, TLC

VARIABLES
    unaryInts,          \* the unary interceptor list the Mux was built with
    streamInts,         \* the stream interceptor list the Mux was built with
    rpcs,               \* Mux.rpcs: the registry, rpc name -> rpcData
    unaryInterceptor,   \* Mux.unaryInterceptor: the composed unary chain (or nil)
    streamInterceptor,  \* Mux.streamInterceptor: the composed stream chain (or nil)
    pc,                 \* position of the HandleRPC call
    rpc,                \* HandleRPC's rpc argument
    data,               \* HandleRPC's local data (the registration found)
    in,                 \* HandleRPC's local in
    out,                \* the out of the latest return; HandleRPC's out once the stack is empty
    err,                \* the err of the latest return; HandleRPC's err once the stack is empty
    stack,              \* the active calls below HandleRPC, innermost last
    events,             \* the trace of observable events of this call
    result,             \* HandleRPC's return value
    opts,               \* the dial options given to NewClientConnWithOptions
    dopts,              \* ClientConn.dopts
    cpc,                \* position of the Invoke / NewStream call
    call,               \* the operation called on the ClientConn and its arguments
    cstack,             \* the active calls below Invoke / NewStream, innermost last
    cevents,            \* the trace of observable events of the client call
    cret,               \* what the latest return handed back
    cresult,            \* what Invoke / NewStream returned
    self,               \* the call whose locals the call variables above hold
    parked,             \* the locals of the other calls in flight, per call
    maps,               \* the metadata maps allocated so far
    ctxs,               \* the contexts made so far, in the order they were made
    lastOp              \* the latest drpcmetadata operation and what it was given

muxVars == <<unaryInts, streamInts, rpcs, unaryInterceptor, streamInterceptor>>

serverVars == <<muxVars, pc, rpc, data, in, out, err, stack, events, result>>

clientVars == <<opts, dopts, cpc, call, cstack, cevents, cret, cresult>>

callVars == <<self, parked>>

metaVars == <<maps, ctxs, lastOp>>

vars == <<serverVars, clientVars, callVars, metaVars>>

\* The longest interceptor list the Mux is built with.
MaxInterceptors == 3

\* The most dial options a ClientConn is built with, and the most interceptors
\* of one flavor they add together.
MaxOptions == 2

MaxClientInterceptors == 3

(***************************************************************************)
(* Values.                                                                 *)
(***************************************************************************)

\* An interface value holding nothing (Go's nil interface).
AbsentMsg == [kind |-> "absent", val |-> ""]

\* A nil pointer held in a non-nil interface value.
NilPtrMsg == [kind |-> "nilptr", val |-> ""]

\* A non-nil pointer to a message.
PtrMsg(v) == [kind |-> "ptr", val |-> v]

\* A value that is not a pointer (a string, a struct) held in an interface.
ValueMsg(v) == [kind |-> "value", val |-> v]

\* A stream handed around as a value.
StreamVal(s) == [kind |-> "stream", val |-> s]

\* The inbound stream of call c: the transport hands every call its own.
StreamOf(c) == StreamVal("s" \o ToString(c))

\* Mutant: every call works on the stream of the first call.
originalStream_OfFirstCall == StreamOf(1)

\* The stream parameter of the HandleRPC call that is running.
originalStream == StreamOf(self)

\* The prefix the wrapping stream of interceptor i puts before what it receives.
Prefix(i) == "MODIFIED_" \o ToString(i) \o "_"

\* A stream that embeds another and modifies what is received through it.
modifyingStream(i, inner) ==
    [kind |-> "stream", val |-> "modifying_" \o ToString(i) \o "(" \o inner.val \o ")",
     inner |-> inner, prefix |-> Prefix(i)]

\* stream.Context(): a wrapping stream answers with the embedded stream's.
RECURSIVE Context(_)
Context(stream) ==
    IF "inner" \in DOMAIN stream THEN Context(stream.inner) ELSE "ctx_" \o stream.val

\* The nil error.
NilErr == [kind |-> "nil", class |-> "", cause |-> "", wrapped |-> FALSE]

\* An error made by user code or by the stream.
NewErr(cause) == [kind |-> "err", class |-> "", cause |-> cause, wrapped |-> FALSE]

\* drpc.ProtocolError.New("unknown rpc: %q", rpc)
ProtocolError(name) ==
    [kind |-> "err", class |-> "ProtocolError", cause |-> "unknown rpc: " \o name,
     wrapped |-> FALSE]

\* errs.Wrap: nil stays nil, an error is returned with a stack trace attached
\* and stays identifiable (class and cause are kept).
Wrap(e) == IF e.kind = "nil" THEN e ELSE [e EXCEPT !.wrapped = TRUE]

\* Mutant: only the interface value is tested.
IsNonNil_InterfaceOnly(v) == v.kind # "absent"

\* reflect.ValueOf(out).IsNil() panics unless out holds a pointer (or another
\* kind that can be nil): "reflect: call of reflect.Value.IsNil on string Value".
IsNilPanics(v) == v.kind = "value"

\* out != nil && !reflect.ValueOf(out).IsNil()
IsNonNil(v) == v.kind # "absent" /\ v.kind # "nilptr"

(***************************************************************************)
(* The registry.  Three registered methods, one per call shape.            *)
(***************************************************************************)

RegisteredNames == {"test.UnaryMethod", "test.StreamMethod", "test.UnaryStreamMethod"}

UnknownName == "test.NonExistentMethod"

RpcNames == RegisteredNames \cup {UnknownName}

\* The rpcData of a registered method: unitary is true iff input and output
\* are both unary; in1 is streamType iff the method consumes the raw stream.
rpcData(name) ==
    [name    |-> name,
     enc     |-> "enc:" \o name,
     srv     |-> "srv",
     unitary |-> (name = "test.UnaryMethod"),
     in1     |-> IF name = "test.StreamMethod" THEN "streamType" ELSE "messageType"]

\* The value of data before the lookup.
NoData == [name |-> "", enc |-> "", srv |-> "", unitary |-> FALSE, in1 |-> ""]

\* Mux.Register applied to the three methods.
Register == [name \in RegisteredNames |-> rpcData(name)]

(***************************************************************************)
(* Interceptor chain composer (server side).                               *)
(***************************************************************************)

\* The nil function value.
NilFunc == [kind |-> "nil"]

\* What an interceptor can do: call next once and return what it returned;
\* call next once and return its own message with next's error; return an
\* error without calling next; call next once with other arguments than it
\* received and return what next returned.
Behaviours == {"forward", "replace", "shortErr", "substitute"}

\* What the interceptor types allow besides: return a message, (nil, nil) or
\* a value that is not a pointer without calling next; call next again after
\* it returned and return what the last call returned; call next once and
\* return its result with a nil error.
AllBehaviours ==
    Behaviours \cup {"shortMsg", "shortNil", "shortValue", "repeat", "swallow"}

\* The behaviours that return without calling next.
ShortCircuits == {"shortErr", "shortMsg", "shortNil", "shortValue"}

\* The i-th interceptor the user wrote, of the given flavor; can is what its
\* code can do when it runs.
UserInterceptor(flavor, i) ==
    [kind |-> "user", flavor |-> flavor, id |-> i, can |-> Behaviours]

\* The list [I1..In] given to the Mux.
InterceptorList(flavor, n) == [i \in 1..n |-> UserInterceptor(flavor, i)]

\* An interceptor whose code can do whatever its type allows, and a list of
\* such.
AnyInterceptor(flavor, i) ==
    [kind |-> "user", flavor |-> flavor, id |-> i, can |-> AllBehaviours]

AnyInterceptorList(flavor, n) == [i \in 1..n |-> AnyInterceptor(flavor, i)]

\* What the client interceptor types allow besides Behaviours: return a nil
\* error without calling next, call next again, return a nil error for next's.
AllClientBehaviours == Behaviours \cup {"shortNil", "repeat", "swallow"}

AnyClientInterceptor(flavor, i) ==
    [kind |-> "user", flavor |-> flavor, id |-> i, can |-> AllClientBehaviours]

AnyClientInterceptorList(flavor, n) == [i \in 1..n |-> AnyClientInterceptor(flavor, i)]

\* The terminal closures HandleRPC passes to a chain.
TerminalHandler(which) == [kind |-> "terminal", which |-> which]

\* Mutant: the recursion stops one interceptor early.
getChainedUnaryHandler_StopsEarly(interceptors, currIdx, rpcName, handler) ==
    IF currIdx + 1 >= Len(interceptors)
    THEN handler
    ELSE [kind |-> "chained", interceptors |-> interceptors, currIdx |-> currIdx,
          rpc |-> rpcName, handler |-> handler]

getChainedUnaryHandler(interceptors, currIdx, rpcName, handler) ==
    IF currIdx = Len(interceptors)
    THEN handler
    ELSE [kind |-> "chained", interceptors |-> interceptors, currIdx |-> currIdx,
          rpc |-> rpcName, handler |-> handler]

\* Mutant: an empty list is composed into a wrapper.
chainUnaryInterceptors_WrapsEmpty(interceptors) ==
    CASE Len(interceptors) = 1 -> interceptors[1]
      [] OTHER -> [kind |-> "chain", interceptors |-> interceptors]

chainUnaryInterceptors(interceptors) ==
    CASE Len(interceptors) = 0 -> NilFunc
      [] Len(interceptors) = 1 -> interceptors[1]
      [] OTHER -> [kind |-> "chain", interceptors |-> interceptors]

getChainedStreamHandler(interceptors, currIdx, rpcName, handler) ==
    IF currIdx = Len(interceptors)
    THEN handler
    ELSE [kind |-> "chained", interceptors |-> interceptors, currIdx |-> currIdx,
          rpc |-> rpcName, handler |-> handler]

\* Mutant: the list is folded from the wrong end.
chainStreamInterceptors_Reversed(interceptors) ==
    CASE Len(interceptors) = 0 -> NilFunc
      [] Len(interceptors) = 1 -> interceptors[1]
      [] OTHER -> [kind |-> "chain",
                   interceptors |-> [i \in 1..Len(interceptors) |->
                                        interceptors[Len(interceptors) + 1 - i]]]

chainStreamInterceptors(interceptors) ==
    CASE Len(interceptors) = 0 -> NilFunc
      [] Len(interceptors) = 1 -> interceptors[1]
      [] OTHER -> [kind |-> "chain", interceptors |-> interceptors]

(***************************************************************************)
(* Calls.  A call of a function value becomes the frame of the user        *)
(* interceptor or terminal closure that ends up running.                   *)
(***************************************************************************)

InterceptorFrame(f, ctx, arg, rpcName, next) ==
    [fn |-> "interceptor", flavor |-> f.flavor, id |-> f.id, can |-> f.can,
     rpc |-> rpcName, ctx |-> ctx, arg |-> arg, next |-> next, beh |-> "",
     phase |-> "pre"]

TerminalFrame(which, ctx, arg) ==
    [fn |-> "terminal", which |-> which, ctx |-> ctx, arg |-> arg]

\* via is "handler" when a terminal closure makes the call, "direct" when
\* HandleRPC makes it.
ReceiverFrame(ctx, in1, in2, via) ==
    [fn |-> "receiver", ctx |-> ctx, in1 |-> in1, in2 |-> in2, via |-> via]

\* A call f(ctx, req, rpc, handler) of a composed unary interceptor: a user
\* interceptor runs as it is, the chain closure calls interceptors[0] with the
\* chained handler for index 1.
CallUnaryInterceptor(f, ctx, req, rpcName, handler) ==
    IF f.kind = "chain"
    THEN InterceptorFrame(f.interceptors[1], ctx, req, rpcName,
                          getChainedUnaryHandler(f.interceptors, 1, rpcName, handler))
    ELSE InterceptorFrame(f, ctx, req, rpcName, handler)

\* Mutant: the index is kept between the calls of a chained closure, so a
\* closure that was called before goes on with the interceptor after its own.
CallUnaryHandler_KeepsIndex(h, ctx, req) ==
    IF h.kind = "chained"
    THEN LET called == \E i \in 1..Len(events) :
                          events[i].op = "pre" /\ events[i].id = h.currIdx + 1
             idx == IF called THEN h.currIdx + 1 ELSE h.currIdx
         IN  IF idx = Len(h.interceptors)
             THEN TerminalFrame(h.handler.which, ctx, req)
             ELSE InterceptorFrame(h.interceptors[idx + 1], ctx, req, h.rpc,
                                   getChainedUnaryHandler(h.interceptors, idx + 1,
                                                          h.rpc, h.handler))
    ELSE TerminalFrame(h.which, ctx, req)

\* A call h(ctx, req) of a UnaryHandler: the chained closure calls
\* interceptors[currIdx] with the chained handler for currIdx+1; the terminal
\* closure runs itself.
CallUnaryHandler(h, ctx, req) ==
    IF h.kind = "chained"
    THEN InterceptorFrame(h.interceptors[h.currIdx + 1], ctx, req, h.rpc,
                          getChainedUnaryHandler(h.interceptors, h.currIdx + 1,
                                                 h.rpc, h.handler))
    ELSE TerminalFrame(h.which, ctx, req)

\* A call f(stream, rpc, handler) of a composed stream interceptor.
CallStreamInterceptor(f, stream, rpcName, handler) ==
    IF f.kind = "chain"
    THEN InterceptorFrame(f.interceptors[1], "", stream, rpcName,
                          getChainedStreamHandler(f.interceptors, 1, rpcName, handler))
    ELSE InterceptorFrame(f, "", stream, rpcName, handler)

\* Mutant: the chained closure hands on an empty name instead of the captured one.
CallStreamHandler_LosesName(h, stream) ==
    IF h.kind = "chained"
    THEN InterceptorFrame(h.interceptors[h.currIdx + 1], "", stream, "",
                          getChainedStreamHandler(h.interceptors, h.currIdx + 1,
                                                  h.rpc, h.handler))
    ELSE TerminalFrame(h.which, "", stream)

\* A call h(stream) of a StreamHandler.
CallStreamHandler(h, stream) ==
    IF h.kind = "chained"
    THEN InterceptorFrame(h.interceptors[h.currIdx + 1], "", stream, h.rpc,
                          getChainedStreamHandler(h.interceptors, h.currIdx + 1,
                                                  h.rpc, h.handler))
    ELSE TerminalFrame(h.which, "", stream)

(***************************************************************************)
(* The stream and the user code: what they can answer.                     *)
(***************************************************************************)

\* stream.MsgRecv(msg, enc): fills msg and returns nil, or fails.
RecvErrs == {NilErr, NewErr("recvErr")}

\* What MsgRecv leaves in the freshly allocated message: what the inbound
\* stream delivers, with the prefix of every wrapping stream it came through
\* (nothing when the receive fails).
RECURSIVE Received(_, _)
Received(stream, e) ==
    IF e.kind # "nil" THEN PtrMsg("")
    ELSE IF "inner" \in DOMAIN stream
    THEN PtrMsg(stream.prefix \o Received(stream.inner, e).val)
    ELSE PtrMsg("request")

\* stream.MsgSend(out, enc)
SendErrs == {NilErr, NewErr("sendErr")}

\* stream.CloseSend()
CloseErrs == {NilErr, NewErr("closeErr")}

\* What the receiver can return.
ReceiverOuts == {AbsentMsg, NilPtrMsg, PtrMsg("response")}

ReceiverErrs == {NilErr, NewErr("receiverErr")}

\* The context a substituting unary interceptor i passes to next.
SubstituteCtx(i, ctx) == ctx \o "+" \o ToString(i)

\* What a substituting interceptor passes to next in place of arg: a unary
\* interceptor a request of its own, a stream interceptor a wrapping stream.
SubstituteArg(flavor, i, arg) ==
    IF flavor = "unary" THEN PtrMsg(Prefix(i) \o arg.val) ELSE modifyingStream(i, arg)

\* The message interceptor i puts in place of next's result.
Replacement(i) == PtrMsg("modified_" \o ToString(i))

\* The error interceptor i returns when it short-circuits.
InterceptorErr(i) == NewErr("interceptorErr_" \o ToString(i))

\* The value that is not a pointer interceptor i returns.
PlainValue(i) == ValueMsg("plain_" \o ToString(i))

\* What interceptor i returns when it returns without calling next.
ShortOut(beh, i) ==
    CASE beh = "shortMsg"   -> Replacement(i)
      [] beh = "shortValue" -> PlainValue(i)
      [] OTHER              -> AbsentMsg

ShortErr(beh, i) == IF beh = "shortErr" THEN InterceptorErr(i) ELSE NilErr

\* Mutant: the error of the receive is not returned.
msgRecv_DropsErr(d, stream, recvErr) ==
    [msg |-> Received(stream, recvErr), err |-> NilErr]

\* msgRecv: allocate the input message, receive into it, wrap the error.
msgRecv(d, stream, recvErr) ==
    [msg |-> Received(stream, recvErr), err |-> Wrap(recvErr)]

(***************************************************************************)
(* Events.                                                                 *)
(***************************************************************************)

MsgRecvEvent(stream, enc, e) ==
    [op |-> "MsgRecv", stream |-> stream.val, enc |-> enc, err |-> e]

MsgSendEvent(stream, msg, enc, e) ==
    [op |-> "MsgSend", stream |-> stream.val, msg |-> msg, enc |-> enc, err |-> e]

CloseSendEvent(stream, e) == [op |-> "CloseSend", stream |-> stream.val, err |-> e]

PreEvent(f) ==
    [op |-> "pre", flavor |-> f.flavor, id |-> f.id, rpc |-> f.rpc, ctx |-> f.ctx,
     arg |-> f.arg, beh |-> f.beh]

PostEvent(f, o, e) ==
    [op |-> "post", flavor |-> f.flavor, id |-> f.id, out |-> o, err |-> e]

\* Interceptor f calls next once more.
AgainEvent(f) == [op |-> "again", flavor |-> f.flavor, id |-> f.id]

HandlerEvent(f) == [op |-> "handler", which |-> f.which]

HandlerReturnEvent(o, e) == [op |-> "handlerReturn", out |-> o, err |-> e]

ReceiverEvent(f, srv, o, e) ==
    [op |-> "receiver", srv |-> srv, ctx |-> f.ctx, in1 |-> f.in1, in2 |-> f.in2,
     out |-> o, err |-> e]

(***************************************************************************)
(* The client: dial options and the chain composer of ClientConn.          *)
(***************************************************************************)

\* dialOptions{}
defaultDialOptions ==
    [unaryInt |-> NilFunc, streamInt |-> NilFunc, unaryInts |-> <<>>, streamInts |-> <<>>]

\* Mutant: the interceptors are put before those already configured.
WithChainUnaryInterceptor_Prepends(ints, opt) == [opt EXCEPT !.unaryInts = ints \o @]

\* The DialOption made by WithChainUnaryInterceptor(ints...), applied to opt.
WithChainUnaryInterceptor(ints, opt) == [opt EXCEPT !.unaryInts = @ \o ints]

\* The DialOption made by WithChainStreamInterceptor(ints...), applied to opt.
WithChainStreamInterceptor(ints, opt) == [opt EXCEPT !.streamInts = @ \o ints]

\* A DialOption as a value: which constructor made it, and from what.
DialOption(flavor, ints) == [with |-> flavor, ints |-> ints]

\* opt(&clientConn.dopts)
ApplyDialOption(o, d) ==
    IF o.with = "unary"
    THEN WithChainUnaryInterceptor(o.ints, d)
    ELSE WithChainStreamInterceptor(o.ints, d)

\* for _, opt := range opts { opt(&clientConn.dopts) }
RECURSIVE ApplyDialOptions(_, _)
ApplyDialOptions(os, d) ==
    IF os = <<>> THEN d ELSE ApplyDialOptions(Tail(os), ApplyDialOption(Head(os), d))

\* Mutant: an empty list is composed into a chain closure.
chainUnaryClientInterceptors_WrapsEmpty(d) ==
    CASE Len(d.unaryInts) = 1 -> [d EXCEPT !.unaryInt = d.unaryInts[1]]
      [] OTHER -> [d EXCEPT !.unaryInt = [kind |-> "chain", flavor |-> "unary",
                                          n |-> Len(d.unaryInts)]]

\* chainUnaryClientInterceptors: sets dopts.unaryInt from dopts.unaryInts.  The
\* closure of the default case captures n and reads the list when it is called.
chainUnaryClientInterceptors(d) ==
    CASE Len(d.unaryInts) = 0 -> [d EXCEPT !.unaryInt = NilFunc]
      [] Len(d.unaryInts) = 1 -> [d EXCEPT !.unaryInt = d.unaryInts[1]]
      [] OTHER -> [d EXCEPT !.unaryInt = [kind |-> "chain", flavor |-> "unary",
                                          n |-> Len(d.unaryInts)]]

\* Mutant: a single interceptor is composed into a chain closure.
chainStreamClientInterceptors_WrapsSingle(d) ==
    CASE Len(d.streamInts) = 0 -> [d EXCEPT !.streamInt = NilFunc]
      [] OTHER -> [d EXCEPT !.streamInt = [kind |-> "chain", flavor |-> "stream",
                                           n |-> Len(d.streamInts)]]

\* chainStreamClientInterceptors: sets dopts.streamInt from dopts.streamInts.
chainStreamClientInterceptors(d) ==
    CASE Len(d.streamInts) = 0 -> [d EXCEPT !.streamInt = NilFunc]
      [] Len(d.streamInts) = 1 -> [d EXCEPT !.streamInt = d.streamInts[1]]
      [] OTHER -> [d EXCEPT !.streamInt = [kind |-> "chain", flavor |-> "stream",
                                           n |-> Len(d.streamInts)]]

\* initInterceptors
initInterceptors(d) == chainStreamClientInterceptors(chainUnaryClientInterceptors(d))

\* NewClientConnWithOptions: the dopts of the ClientConn it returns.
NewClientConnWithOptions(os) == initInterceptors(ApplyDialOptions(os, defaultDialOptions))

\* finalInvoker and finalStreamer as function values.
ClientTerminal(name) == [kind |-> "terminal", name |-> name]

\* The arguments of a client call; in is absent for NewStream.
Args(ctx, rpcName, enc, input) == [ctx |-> ctx, rpc |-> rpcName, enc |-> enc, in |-> input]

\* Mutant: the loop runs upwards, so the last interceptor becomes the outermost.
RECURSIVE UnaryChained_Ascending(_, _, _)
UnaryChained_Ascending(ints, i, chained) ==
    IF i < 0 THEN chained
    ELSE UnaryChained_Ascending(ints, i - 1,
             [kind |-> "chained", interceptor |-> ints[Len(ints) - i], next |-> chained])

\* for i := n - 1; i >= 0; i-- { next := chained; interceptor := unaryInts[i];
\* chained = func(...) { return interceptor(..., next) } }, from index i down.
RECURSIVE UnaryChained(_, _, _)
UnaryChained(ints, i, chained) ==
    IF i < 0 THEN chained
    ELSE UnaryChained(ints, i - 1,
             [kind |-> "chained", interceptor |-> ints[i + 1], next |-> chained])

\* Mutant: the loop of the stream chain runs upwards.
RECURSIVE StreamChained_Ascending(_, _, _)
StreamChained_Ascending(ints, i, chained) ==
    IF i < 0 THEN chained
    ELSE StreamChained_Ascending(ints, i - 1,
             [kind |-> "chained", interceptor |-> ints[Len(ints) - i], next |-> chained])

\* The same loop of the stream chain.
RECURSIVE StreamChained(_, _, _)
StreamChained(ints, i, chained) ==
    IF i < 0 THEN chained
    ELSE StreamChained(ints, i - 1,
             [kind |-> "chained", interceptor |-> ints[i + 1], next |-> chained])

ClientInterceptorFrame(f, args, next) ==
    [fn |-> "interceptor", flavor |-> f.flavor, id |-> f.id, can |-> f.can,
     args |-> args, next |-> next, beh |-> "", phase |-> "pre"]

ClientTerminalFrame(name, args) == [fn |-> "terminal", name |-> name, args |-> args]

\* A call invoker(ctx, rpc, enc, in, out, cc) of a UnaryInvoker: a chained
\* closure calls its interceptor with the arguments it was called with and its
\* next; finalInvoker runs itself.
CallUnaryInvoker(h, args) ==
    IF h.kind = "chained"
    THEN ClientInterceptorFrame(h.interceptor, args, h.next)
    ELSE ClientTerminalFrame(h.name, args)

\* A call streamer(ctx, rpc, enc, cc) of a Streamer.
CallStreamer(h, args) ==
    IF h.kind = "chained"
    THEN ClientInterceptorFrame(h.interceptor, args, h.next)
    ELSE ClientTerminalFrame(h.name, args)

\* A call f(ctx, rpc, enc, in, out, conn, invoker) of dopts.unaryInt: a user
\* interceptor runs as it is; the chain closure builds chained from the list
\* and calls it.
CallUnaryClientInterceptor(f, ints, args, invoker) ==
    IF f.kind = "chain"
    THEN CallUnaryInvoker(UnaryChained(ints, f.n - 1, invoker), args)
    ELSE ClientInterceptorFrame(f, args, invoker)

\* A call f(ctx, rpc, enc, conn, streamer) of dopts.streamInt.
CallStreamClientInterceptor(f, ints, args, streamer) ==
    IF f.kind = "chain"
    THEN CallStreamer(StreamChained(ints, f.n - 1, streamer), args)
    ELSE ClientInterceptorFrame(f, args, streamer)

(***************************************************************************)
(* The underlying connection and the client's user code.                   *)
(***************************************************************************)

\* The names the caller asks for.
ClientRpcNames == {"TestMethod", "TestRPC"}

\* Conn.Invoke / Conn.NewStream succeed or fail.
ConnErrs == {NilErr, NewErr("connErr")}

\* What Conn.Invoke leaves in out.
Replied(args, e) ==
    IF e.kind = "nil"
    THEN PtrMsg("mocked response for request: " \o args.in.val)
    ELSE PtrMsg("")

\* The stream Conn.NewStream returns.
Opened(args, e) == IF e.kind = "nil" THEN StreamVal(args.rpc) ELSE AbsentMsg

\* A return value of a client call: the reply or stream, and the error.
Ret(val, e) == [val |-> val, err |-> e]

NoRet == Ret(AbsentMsg, NilErr)

NoCall == [op |-> "", args |-> Args("", "", "", AbsentMsg)]

\* What a substituting client interceptor i passes to next: another context
\* and another rpc name.
SubstituteArgs(i, args) ==
    [args EXCEPT !.ctx = SubstituteCtx(i, @), !.rpc = @ \o "_" \o ToString(i)]

\* What a replacing client interceptor i returns after next returned: its own
\* error for next's error, a wrapping stream for next's stream.
ReplacedRet(flavor, i, ret) ==
    IF ret.err.kind # "nil"
    THEN Ret(ret.val, NewErr("mapped_" \o ToString(i)))
    ELSE IF flavor = "stream"
    THEN Ret(modifyingStream(i, ret.val), ret.err)
    ELSE ret

ConnInvokeEvent(args, e) ==
    [op |-> "Conn.Invoke", ctx |-> args.ctx, rpc |-> args.rpc, enc |-> args.enc,
     in |-> args.in, err |-> e]

ConnNewStreamEvent(args, e) ==
    [op |-> "Conn.NewStream", ctx |-> args.ctx, rpc |-> args.rpc, enc |-> args.enc,
     in |-> args.in, err |-> e]

ClientPreEvent(f) ==
    [op |-> "pre", flavor |-> f.flavor, id |-> f.id, args |-> f.args, beh |-> f.beh]

ClientPostEvent(f, ret) ==
    [op |-> "post", flavor |-> f.flavor, id |-> f.id, val |-> ret.val, err |-> ret.err]

ClientTerminalEvent(f) == [op |-> "terminal", name |-> f.name]

\* A client interceptor calls next once more.
ClientAgainEvent(f) == [op |-> "again", flavor |-> f.flavor, id |-> f.id]

\* No ClientConn is in use.
ClientUnused ==
    /\ opts = <<>>
    /\ dopts = defaultDialOptions
    /\ cpc = "unused"
    /\ call = NoCall
    /\ cstack = <<>>
    /\ cevents = <<>>
    /\ cret = NoRet
    /\ cresult = NoRet

\* One call only: there is no other call in flight.
SingleCall ==
    /\ self = 0
    /\ parked = <<>>

(***************************************************************************)
(* drpcmetadata: metadata on a context.  A context is what its              *)
(* Value(metadataKey{}) yields: nothing, nil, or a reference to a map.      *)
(***************************************************************************)

MetaKeys == {"k1", "k2"}

MetaValues == {"v1", "v2"}

\* A context on which no metadata value was ever set.
NoMetadata == [kind |-> "none", ref |-> 0]

\* context.WithValue(ctx, metadataKey{}, nil)
NilMetadata == [kind |-> "nil", ref |-> 0]

\* context.WithValue(ctx, metadataKey{}, m) for the map with reference r.
MapMetadata(r) == [kind |-> "map", ref |-> r]

\* Get with the maps as they are in ms: the type assertion to
\* map[string]string succeeds only on a map.
GetFrom(ms, ctx) ==
    IF ctx.kind = "map" THEN [md |-> ms[ctx.ref], ok |-> TRUE] ELSE [md |-> <<>>, ok |-> FALSE]

\* Get
Get(ctx) == GetFrom(maps, ctx)

\* GetValue
GetValue(ctx, key) ==
    LET g == Get(ctx) IN
    IF ~g.ok THEN [val |-> "", ok |-> FALSE]
    ELSE IF key \in DOMAIN g.md THEN [val |-> g.md[key], ok |-> TRUE]
    ELSE [val |-> "", ok |-> FALSE]

\* No drpcmetadata operation was made.
NoOp == [op |-> "", arg |-> 0, key |-> "", value |-> "", ret |-> 0, before |-> <<>>]

\* drpcmetadata is not in use.
MetaUnused ==
    /\ maps = <<>>
    /\ ctxs = <<>>
    /\ lastOp = NoOp

(***************************************************************************)
(* The state machine.                                                      *)
(***************************************************************************)

\* NewWithInterceptors: each list is composed once, when the Mux is built.
NewWithInterceptors(unaryList, streamList) ==
    [unaryInterceptor  |-> chainUnaryInterceptors(unaryList),
     streamInterceptor |-> chainStreamInterceptors(streamList)]

\* The Mux after NewWithInterceptors(unaryInts, streamInts) and Register.
Init ==
    /\ rpcs = Register
    /\ \E n \in 0..MaxInterceptors : unaryInts = InterceptorList("unary", n)
    /\ \E n \in 0..MaxInterceptors : streamInts = InterceptorList("stream", n)
    /\ unaryInterceptor = NewWithInterceptors(unaryInts, streamInts).unaryInterceptor
    /\ streamInterceptor = NewWithInterceptors(unaryInts, streamInts).streamInterceptor
    /\ pc = "idle"
    /\ rpc = ""
    /\ data = NoData
    /\ in = AbsentMsg
    /\ out = AbsentMsg
    /\ err = NilErr
    /\ stack = <<>>
    /\ events = <<>>
    /\ result = NilErr
    /\ ClientUnused
    /\ SingleCall
    /\ MetaUnused

Top == stack[Len(stack)]

Pop == SubSeq(stack, 1, Len(stack) - 1)

\* Where control is after the top frame returned.
AfterReturn == IF Len(stack) = 1 THEN "final" ELSE "chain"

\* Mutant: the lookup's ok is not tested; an unknown name yields the zero rpcData.
HandleRPC_NoLookupCheck ==
    /\ pc = "idle"
    /\ \E name \in RpcNames :
        /\ rpc' = name
        /\ data' = IF name \in DOMAIN rpcs THEN rpcs[name] ELSE NoData
        /\ in' = originalStream
        /\ pc' = "switch"
    /\ UNCHANGED <<clientVars, callVars, metaVars, muxVars, out, err, stack, events, result>>

\* HandleRPC, lines 15-22: the lookup.
HandleRPC ==
    /\ pc = "idle"
    /\ \E name \in RpcNames :
        /\ rpc' = name
        /\ IF name \notin DOMAIN rpcs
           THEN /\ result' = ProtocolError(name)
                /\ pc' = "done"
                /\ UNCHANGED <<data, in>>
           ELSE /\ data' = rpcs[name]
                /\ in' = originalStream
                /\ pc' = "switch"
                /\ UNCHANGED result
    /\ UNCHANGED <<clientVars, callVars, metaVars, muxVars, out, err, stack, events>>

\* Mutant: the unary chain is taken whatever the shape of the rpc.
UnaryCaseCond_IgnoresShape == unaryInterceptor.kind # "nil"

\* case data.unitary && m.unaryInterceptor != nil
UnaryCaseCond == data.unitary /\ unaryInterceptor.kind # "nil"

\* Mutant: only stream-input rpcs take the stream chain.
StreamCaseCond_OnlyStreamInput ==
    data.in1 = "streamType" /\ streamInterceptor.kind # "nil"

\* case !data.unitary && m.streamInterceptor != nil
StreamCaseCond == ~data.unitary /\ streamInterceptor.kind # "nil"

\* Mutant: a failed receive does not leave the switch.
UnaryCase_NoBreak ==
    /\ pc = "switch"
    /\ UnaryCaseCond
    /\ \E recvErr \in RecvErrs :
        LET r == msgRecv(data, originalStream, recvErr) IN
        /\ events' = Append(events, MsgRecvEvent(originalStream, data.enc, recvErr))
        /\ in' = r.msg
        /\ err' = r.err
        /\ pc' = "chain"
        /\ stack' = <<CallUnaryInterceptor(unaryInterceptor,
                          Context(originalStream), r.msg, rpc,
                          TerminalHandler("unary"))>>
    /\ UNCHANGED <<clientVars, callVars, metaVars, muxVars, rpc, data, out, result>>

\* Mutant: the chain is called with a context HandleRPC derived itself.
UnaryCase_DerivesContext ==
    /\ pc = "switch"
    /\ UnaryCaseCond
    /\ \E recvErr \in RecvErrs :
        LET r == msgRecv(data, originalStream, recvErr) IN
        /\ events' = Append(events, MsgRecvEvent(originalStream, data.enc, recvErr))
        /\ in' = r.msg
        /\ err' = r.err
        /\ IF r.err.kind # "nil"
           THEN /\ pc' = "final"
                /\ UNCHANGED stack
           ELSE /\ pc' = "chain"
                /\ stack' = <<CallUnaryInterceptor(unaryInterceptor,
                                  SubstituteCtx(0, Context(originalStream)), r.msg, rpc,
                                  TerminalHandler("unary"))>>
    /\ UNCHANGED <<clientVars, callVars, metaVars, muxVars, rpc, data, out, result>>

\* The unary chain: receive the request, then call the composed interceptor.
UnaryCase ==
    /\ pc = "switch"
    /\ UnaryCaseCond
    /\ \E recvErr \in RecvErrs :
        LET r == msgRecv(data, originalStream, recvErr) IN
        /\ events' = Append(events, MsgRecvEvent(originalStream, data.enc, recvErr))
        /\ in' = r.msg
        /\ err' = r.err
        /\ IF r.err.kind # "nil"
           THEN /\ pc' = "final"
                /\ UNCHANGED stack
           ELSE /\ pc' = "chain"
                /\ stack' = <<CallUnaryInterceptor(unaryInterceptor,
                                  Context(originalStream), r.msg, rpc,
                                  TerminalHandler("unary"))>>
    /\ UNCHANGED <<clientVars, callVars, metaVars, muxVars, rpc, data, out, result>>

\* The stream chain: call the composed interceptor with the original stream.
StreamCase ==
    /\ pc = "switch"
    /\ ~UnaryCaseCond
    /\ StreamCaseCond
    /\ stack' = <<CallStreamInterceptor(streamInterceptor, originalStream, rpc,
                      TerminalHandler(IF data.in1 = "streamType"
                                      THEN "streamIn" ELSE "unaryInStreamOut"))>>
    /\ pc' = "chain"
    /\ UNCHANGED <<clientVars, callVars, metaVars, muxVars, rpc, data, in, out, err, events, result>>

\* Mutant: the receiver is called without the input having been received.
DefaultCase_SkipsRecv ==
    /\ pc = "switch"
    /\ ~UnaryCaseCond
    /\ ~StreamCaseCond
    /\ stack' = <<ReceiverFrame(Context(originalStream), in, originalStream, "direct")>>
    /\ pc' = "chain"
    /\ UNCHANGED <<clientVars, callVars, metaVars, muxVars, rpc, data, in, out, err, events, result>>

\* default
DefaultCase ==
    /\ pc = "switch"
    /\ ~UnaryCaseCond
    /\ ~StreamCaseCond
    /\ IF data.in1 # "streamType"
       THEN \E recvErr \in RecvErrs :
              LET r == msgRecv(data, originalStream, recvErr) IN
              /\ events' = Append(events, MsgRecvEvent(originalStream, data.enc, recvErr))
              /\ in' = r.msg
              /\ err' = r.err
              /\ IF r.err.kind # "nil"
                 THEN /\ pc' = "final"
                      /\ UNCHANGED stack
                 ELSE /\ pc' = "chain"
                      /\ stack' = <<ReceiverFrame(Context(originalStream), r.msg,
                                                  originalStream, "direct")>>
       ELSE /\ stack' = <<ReceiverFrame(Context(originalStream), in, originalStream,
                                        "direct")>>
            /\ pc' = "chain"
            /\ UNCHANGED <<in, err, events>>
    /\ UNCHANGED <<clientVars, callVars, metaVars, muxVars, rpc, data, out, result>>

\* A user interceptor starts: its pre-logic, then either its call of next or
\* its return without one.
InterceptorPre ==
    /\ pc = "chain"
    /\ Top.fn = "interceptor" /\ Top.phase = "pre"
    /\ \E beh \in Top.can :
        LET f == [Top EXCEPT !.beh = beh, !.phase = "wait"] IN
        /\ events' = Append(events, PreEvent(f))
        /\ IF beh \in ShortCircuits
           THEN /\ stack' = Pop
                /\ out' = ShortOut(beh, f.id)
                /\ err' = ShortErr(beh, f.id)
                /\ pc' = AfterReturn
           ELSE /\ LET ctx == IF beh = "substitute"
                                THEN SubstituteCtx(f.id, f.ctx) ELSE f.ctx
                         arg == IF beh = "substitute"
                                THEN SubstituteArg(f.flavor, f.id, f.arg) ELSE f.arg
                     IN  stack' = Append(Append(Pop, f),
                                         IF f.flavor = "unary"
                                         THEN CallUnaryHandler(f.next, ctx, arg)
                                         ELSE CallStreamHandler(f.next, arg))
                /\ UNCHANGED <<out, err, pc>>
    /\ UNCHANGED <<clientVars, callVars, metaVars, muxVars, rpc, data, in, result>>

\* The calls of next made so far in this HandleRPC call, and how many of them
\* there are at most when an interceptor calls next again.
NextCalls ==
    Len(SelectSeq(events, LAMBDA e : \/ e.op = "again"
                                     \/ e.op = "pre" /\ e.beh \notin ShortCircuits))

MaxNextCalls == 3

\* next returned to a user interceptor: it calls next once more with what it
\* was called with, or runs its post-logic and returns.
InterceptorPost ==
    /\ pc = "chain"
    /\ Top.fn = "interceptor" /\ Top.phase = "wait"
    /\ \/ /\ Top.beh = "repeat"
          /\ NextCalls < MaxNextCalls
          /\ events' = Append(events, AgainEvent(Top))
          /\ stack' = Append(stack, IF Top.flavor = "unary"
                                    THEN CallUnaryHandler(Top.next, Top.ctx, Top.arg)
                                    ELSE CallStreamHandler(Top.next, Top.arg))
          /\ UNCHANGED <<out, err, pc>>
       \/ /\ LET o == IF Top.beh = "replace" THEN Replacement(Top.id) ELSE out
                 e == IF Top.beh = "swallow" THEN NilErr ELSE err IN
              /\ events' = Append(events, PostEvent(Top, o, e))
              /\ out' = o
              /\ err' = e
          /\ stack' = Pop
          /\ pc' = AfterReturn
    /\ UNCHANGED <<clientVars, callVars, metaVars, muxVars, rpc, data, in, result>>

\* Mutant: the unary input of a stream-output rpc is read from the original
\* stream, whatever stream the chain handed to the terminal closure.
Handler_RecvFromOriginal ==
    /\ pc = "chain"
    /\ Top.fn = "terminal"
    /\ CASE Top.which = "unary" ->
              /\ events' = Append(events, HandlerEvent(Top))
              /\ stack' = Append(Pop, ReceiverFrame(Top.ctx, Top.arg, originalStream,
                                                    "handler"))
              /\ UNCHANGED <<out, err, pc>>
         [] Top.which = "streamIn" ->
              /\ events' = Append(events, HandlerEvent(Top))
              /\ stack' = Append(Pop, ReceiverFrame(Context(Top.arg), Top.arg, Top.arg,
                                                    "handler"))
              /\ UNCHANGED <<out, err, pc>>
         [] OTHER ->
              \E recvErr \in RecvErrs :
                LET r == msgRecv(data, originalStream, recvErr) IN
                IF r.err.kind # "nil"
                THEN /\ events' = events \o <<HandlerEvent(Top),
                                              MsgRecvEvent(originalStream, data.enc, recvErr),
                                              HandlerReturnEvent(AbsentMsg, r.err)>>
                     /\ stack' = Pop
                     /\ out' = AbsentMsg
                     /\ err' = r.err
                     /\ pc' = AfterReturn
                ELSE /\ events' = events \o <<HandlerEvent(Top),
                                              MsgRecvEvent(originalStream, data.enc, recvErr)>>
                     /\ stack' = Append(Pop, ReceiverFrame(Context(Top.arg), r.msg,
                                                           Top.arg, "handler"))
                     /\ UNCHANGED <<out, err, pc>>
    /\ UNCHANGED <<clientVars, callVars, metaVars, muxVars, rpc, data, in, result>>

\* Mutant: the receiver of a stream-input rpc keeps the original stream as its
\* stream handle.
Handler_StreamInKeepsOriginal ==
    /\ pc = "chain"
    /\ Top.fn = "terminal"
    /\ CASE Top.which = "unary" ->
              /\ events' = Append(events, HandlerEvent(Top))
              /\ stack' = Append(Pop, ReceiverFrame(Top.ctx, Top.arg, originalStream,
                                                    "handler"))
              /\ UNCHANGED <<out, err, pc>>
         [] Top.which = "streamIn" ->
              /\ events' = Append(events, HandlerEvent(Top))
              /\ stack' = Append(Pop, ReceiverFrame(Context(Top.arg), Top.arg,
                                                    originalStream, "handler"))
              /\ UNCHANGED <<out, err, pc>>
         [] OTHER ->
              \E recvErr \in RecvErrs :
                LET r == msgRecv(data, Top.arg, recvErr) IN
                IF r.err.kind # "nil"
                THEN /\ events' = events \o <<HandlerEvent(Top),
                                              MsgRecvEvent(Top.arg, data.enc, recvErr),
                                              HandlerReturnEvent(AbsentMsg, r.err)>>
                     /\ stack' = Pop
                     /\ out' = AbsentMsg
                     /\ err' = r.err
                     /\ pc' = AfterReturn
                ELSE /\ events' = events \o <<HandlerEvent(Top),
                                              MsgRecvEvent(Top.arg, data.enc, recvErr)>>
                     /\ stack' = Append(Pop, ReceiverFrame(Context(Top.arg), r.msg,
                                                           Top.arg, "handler"))
                     /\ UNCHANGED <<out, err, pc>>
    /\ UNCHANGED <<clientVars, callVars, metaVars, muxVars, rpc, data, in, result>>

\* Mutant: the receiver of a fully-unary rpc gets the request HandleRPC
\* decoded, whatever request the chain handed to the terminal closure.
Handler_UnaryKeepsRequest ==
    /\ pc = "chain"
    /\ Top.fn = "terminal"
    /\ CASE Top.which = "unary" ->
              /\ events' = Append(events, HandlerEvent(Top))
              /\ stack' = Append(Pop, ReceiverFrame(Top.ctx, in, originalStream,
                                                    "handler"))
              /\ UNCHANGED <<out, err, pc>>
         [] Top.which = "streamIn" ->
              /\ events' = Append(events, HandlerEvent(Top))
              /\ stack' = Append(Pop, ReceiverFrame(Context(Top.arg), Top.arg, Top.arg,
                                                    "handler"))
              /\ UNCHANGED <<out, err, pc>>
         [] OTHER ->
              \E recvErr \in RecvErrs :
                LET r == msgRecv(data, Top.arg, recvErr) IN
                IF r.err.kind # "nil"
                THEN /\ events' = events \o <<HandlerEvent(Top),
                                              MsgRecvEvent(Top.arg, data.enc, recvErr),
                                              HandlerReturnEvent(AbsentMsg, r.err)>>
                     /\ stack' = Pop
                     /\ out' = AbsentMsg
                     /\ err' = r.err
                     /\ pc' = AfterReturn
                ELSE /\ events' = events \o <<HandlerEvent(Top),
                                              MsgRecvEvent(Top.arg, data.enc, recvErr)>>
                     /\ stack' = Append(Pop, ReceiverFrame(Context(Top.arg), r.msg,
                                                           Top.arg, "handler"))
                     /\ UNCHANGED <<out, err, pc>>
    /\ UNCHANGED <<clientVars, callVars, metaVars, muxVars, rpc, data, in, result>>

\* The terminal closures HandleRPC passes to the chains.
Handler ==
    /\ pc = "chain"
    /\ Top.fn = "terminal"
    /\ CASE Top.which = "unary" ->
              /\ events' = Append(events, HandlerEvent(Top))
              /\ stack' = Append(Pop, ReceiverFrame(Top.ctx, Top.arg, originalStream,
                                                    "handler"))
              /\ UNCHANGED <<out, err, pc>>
         [] Top.which = "streamIn" ->
              /\ events' = Append(events, HandlerEvent(Top))
              /\ stack' = Append(Pop, ReceiverFrame(Context(Top.arg), Top.arg, Top.arg,
                                                    "handler"))
              /\ UNCHANGED <<out, err, pc>>
         [] OTHER ->
              \E recvErr \in RecvErrs :
                LET r == msgRecv(data, Top.arg, recvErr) IN
                IF r.err.kind # "nil"
                THEN /\ events' = events \o <<HandlerEvent(Top),
                                              MsgRecvEvent(Top.arg, data.enc, recvErr),
                                              HandlerReturnEvent(AbsentMsg, r.err)>>
                     /\ stack' = Pop
                     /\ out' = AbsentMsg
                     /\ err' = r.err
                     /\ pc' = AfterReturn
                ELSE /\ events' = events \o <<HandlerEvent(Top),
                                              MsgRecvEvent(Top.arg, data.enc, recvErr)>>
                     /\ stack' = Append(Pop, ReceiverFrame(Context(Top.arg), r.msg,
                                                           Top.arg, "handler"))
                     /\ UNCHANGED <<out, err, pc>>
    /\ UNCHANGED <<clientVars, callVars, metaVars, muxVars, rpc, data, in, result>>

\* Mutant: the message the receiver returned is sent as soon as it returned.
Receiver_SendsAtOnce ==
    /\ pc = "chain"
    /\ Top.fn = "receiver"
    /\ \E o \in ReceiverOuts, e \in ReceiverErrs :
        /\ events' = events \o <<ReceiverEvent(Top, data.srv, o, e),
                                  MsgSendEvent(originalStream, o, data.enc, NilErr)>>
        /\ out' = o
        /\ err' = e
    /\ stack' = Pop
    /\ pc' = AfterReturn
    /\ UNCHANGED <<clientVars, callVars, metaVars, muxVars, rpc, data, in, result>>

\* data.receiver(data.srv, ctx, in1, in2): the service code runs and returns.
Receiver ==
    /\ pc = "chain"
    /\ Top.fn = "receiver"
    /\ \E o \in ReceiverOuts, e \in ReceiverErrs :
        /\ events' = IF Top.via = "handler"
                      THEN events \o <<ReceiverEvent(Top, data.srv, o, e),
                                       HandlerReturnEvent(o, e)>>
                      ELSE Append(events, ReceiverEvent(Top, data.srv, o, e))
        /\ out' = o
        /\ err' = e
    /\ stack' = Pop
    /\ pc' = AfterReturn
    /\ UNCHANGED <<clientVars, callVars, metaVars, muxVars, rpc, data, in, result>>

\* Mutant: CloseSend follows the MsgSend.
Dispose_SendThenClose ==
    /\ pc = "final"
    /\ CASE err.kind # "nil" ->
              /\ result' = Wrap(err)
              /\ UNCHANGED events
         [] err.kind = "nil" /\ IsNonNil(out) ->
              \E e \in SendErrs :
                /\ events' = events \o <<MsgSendEvent(originalStream, out, data.enc, e),
                                         CloseSendEvent(originalStream, e)>>
                /\ result' = e
         [] OTHER ->
              \E e \in CloseErrs :
                /\ events' = Append(events, CloseSendEvent(originalStream, e))
                /\ result' = e
    /\ pc' = "done"
    /\ UNCHANGED <<clientVars, callVars, metaVars, muxVars, rpc, data, in, out, err, stack>>

\* Mutant: out is tested before err.
Dispose_OutFirst ==
    /\ pc = "final"
    /\ CASE IsNonNil(out) ->
              \E e \in SendErrs :
                /\ events' = Append(events, MsgSendEvent(originalStream, out, data.enc, e))
                /\ result' = e
         [] ~IsNonNil(out) /\ err.kind # "nil" ->
              /\ result' = Wrap(err)
              /\ UNCHANGED events
         [] OTHER ->
              \E e \in CloseErrs :
                /\ events' = Append(events, CloseSendEvent(originalStream, e))
                /\ result' = e
    /\ pc' = "done"
    /\ UNCHANGED <<clientVars, callVars, metaVars, muxVars, rpc, data, in, out, err, stack>>

\* Mutant: the message sent is the one the receiver returned.
Dispose_SendsReceiverOut ==
    /\ pc = "final"
    /\ LET rs == SelectSeq(events, LAMBDA ev : ev.op = "receiver")
           o  == IF rs = <<>> THEN out ELSE rs[Len(rs)].out IN
       CASE err.kind # "nil" ->
              /\ result' = Wrap(err)
              /\ UNCHANGED events
         [] err.kind = "nil" /\ IsNonNil(o) ->
              \E e \in SendErrs :
                /\ events' = Append(events, MsgSendEvent(originalStream, o, data.enc, e))
                /\ result' = e
         [] OTHER ->
              \E e \in CloseErrs :
                /\ events' = Append(events, CloseSendEvent(originalStream, e))
                /\ result' = e
    /\ pc' = "done"
    /\ UNCHANGED <<clientVars, callVars, metaVars, muxVars, rpc, data, in, out, err, stack>>

\* Mutant: a nil result ends the call without CloseSend.
Dispose_SkipsCloseSend ==
    /\ pc = "final"
    /\ CASE err.kind # "nil" ->
              /\ result' = Wrap(err)
              /\ UNCHANGED events
         [] err.kind = "nil" /\ IsNonNil(out) ->
              \E e \in SendErrs :
                /\ events' = Append(events, MsgSendEvent(originalStream, out, data.enc, e))
                /\ result' = e
         [] OTHER ->
              /\ result' = NilErr
              /\ UNCHANGED events
    /\ pc' = "done"
    /\ UNCHANGED <<clientVars, callVars, metaVars, muxVars, rpc, data, in, out, err, stack>>

\* Mutant: a failed MsgSend is not reported.
Dispose_DropsSendErr ==
    /\ pc = "final"
    /\ CASE err.kind # "nil" ->
              /\ result' = Wrap(err)
              /\ UNCHANGED events
         [] err.kind = "nil" /\ IsNonNil(out) ->
              \E e \in SendErrs :
                /\ events' = Append(events, MsgSendEvent(originalStream, out, data.enc, e))
                /\ result' = NilErr
         [] OTHER ->
              \E e \in CloseErrs :
                /\ events' = Append(events, CloseSendEvent(originalStream, e))
                /\ result' = e
    /\ pc' = "done"
    /\ UNCHANGED <<clientVars, callVars, metaVars, muxVars, rpc, data, in, out, err, stack>>

\* Mutant: the result is sent on the stream the receiver was given.
Dispose_OnReceiverStream ==
    /\ pc = "final"
    /\ LET rs == SelectSeq(events, LAMBDA ev : ev.op = "receiver")
           s  == IF rs = <<>> THEN originalStream ELSE rs[Len(rs)].in2 IN
       CASE err.kind # "nil" ->
              /\ result' = Wrap(err)
              /\ UNCHANGED events
         [] err.kind = "nil" /\ IsNonNil(out) ->
              \E e \in SendErrs :
                /\ events' = Append(events, MsgSendEvent(s, out, data.enc, e))
                /\ result' = e
         [] OTHER ->
              \E e \in CloseErrs :
                /\ events' = Append(events, CloseSendEvent(s, e))
                /\ result' = e
    /\ pc' = "done"
    /\ UNCHANGED <<clientVars, callVars, metaVars, muxVars, rpc, data, in, out, err, stack>>

\* HandleRPC, lines 67-74: the disposal of (out, err).  A panic of the nil
\* test leaves HandleRPC without a return value.
Dispose ==
    /\ pc = "final"
    /\ CASE err.kind # "nil" ->
              /\ result' = Wrap(err)
              /\ pc' = "done"
              /\ UNCHANGED events
         [] err.kind = "nil" /\ IsNilPanics(out) ->
              /\ pc' = "panic"
              /\ UNCHANGED <<events, result>>
         [] err.kind = "nil" /\ ~IsNilPanics(out) /\ IsNonNil(out) ->
              \E e \in SendErrs :
                /\ events' = Append(events, MsgSendEvent(originalStream, out, data.enc, e))
                /\ result' = e
                /\ pc' = "done"
         [] OTHER ->
              \E e \in CloseErrs :
                /\ events' = Append(events, CloseSendEvent(originalStream, e))
                /\ result' = e
                /\ pc' = "done"
    /\ UNCHANGED <<clientVars, callVars, metaVars, muxVars, rpc, data, in, out, err, stack>>

Next ==
    \/ HandleRPC
    \/ UnaryCase
    \/ StreamCase
    \/ DefaultCase
    \/ InterceptorPre
    \/ InterceptorPost
    \/ Handler
    \/ Receiver
    \/ Dispose

Spec == Init /\ [][Next]_vars

\* The longest list of interceptors that can do whatever their type allows.
MaxAnyInterceptors == 2

\* The Mux built with lists of the same length of such interceptors.
InitAnyBehaviour ==
    /\ rpcs = Register
    /\ \E n \in 0..MaxAnyInterceptors :
          /\ unaryInts = AnyInterceptorList("unary", n)
          /\ streamInts = AnyInterceptorList("stream", n)
    /\ unaryInterceptor = NewWithInterceptors(unaryInts, streamInts).unaryInterceptor
    /\ streamInterceptor = NewWithInterceptors(unaryInts, streamInts).streamInterceptor
    /\ pc = "idle"
    /\ rpc = ""
    /\ data = NoData
    /\ in = AbsentMsg
    /\ out = AbsentMsg
    /\ err = NilErr
    /\ stack = <<>>
    /\ events = <<>>
    /\ result = NilErr
    /\ ClientUnused
    /\ SingleCall
    /\ MetaUnused

SpecAnyBehaviour == InitAnyBehaviour /\ [][Next]_vars

(***************************************************************************)
(* The client state machine: one ClientConn, one Invoke or NewStream call. *)
(***************************************************************************)

\* No Mux is in use.
MuxUnused ==
    /\ rpcs = Register
    /\ unaryInts = <<>>
    /\ streamInts = <<>>
    /\ unaryInterceptor = NilFunc
    /\ streamInterceptor = NilFunc
    /\ pc = "unused"
    /\ rpc = ""
    /\ data = NoData
    /\ in = AbsentMsg
    /\ out = AbsentMsg
    /\ err = NilErr
    /\ stack = <<>>
    /\ events = <<>>
    /\ result = NilErr

\* The shapes of the option lists: per option its constructor and how many
\* interceptors it is given.
OptionShapes ==
    UNION {[1..k -> [with : {"unary", "stream"}, n : 0..MaxClientInterceptors]] :
              k \in 0..MaxOptions}

\* How many interceptors of the flavor the first j options add.
RECURSIVE Added(_, _, _)
Added(shape, flavor, j) ==
    IF j = 0 THEN 0
    ELSE Added(shape, flavor, j - 1) + (IF shape[j].with = flavor THEN shape[j].n ELSE 0)

\* The options of a shape; the interceptors of a flavor are numbered in the
\* order the arguments name them.
Options(shape) ==
    [j \in DOMAIN shape |->
        DialOption(shape[j].with,
                   [i \in 1..shape[j].n |->
                       UserInterceptor(shape[j].with,
                                       Added(shape, shape[j].with, j - 1) + i)])]

\* The ClientConn after NewClientConnWithOptions(ctx, conn, opts...).
InitClient ==
    /\ MuxUnused
    /\ \E shape \in OptionShapes :
          /\ Added(shape, "unary", Len(shape)) <= MaxClientInterceptors
          /\ Added(shape, "stream", Len(shape)) <= MaxClientInterceptors
          /\ opts = Options(shape)
    /\ dopts = NewClientConnWithOptions(opts)
    /\ cpc = "idle"
    /\ call = NoCall
    /\ cstack = <<>>
    /\ cevents = <<>>
    /\ cret = NoRet
    /\ cresult = NoRet
    /\ SingleCall
    /\ MetaUnused

CTop == cstack[Len(cstack)]

CPop == SubSeq(cstack, 1, Len(cstack) - 1)

\* Where control is after the top frame returned.
ClientAfterReturn == IF Len(cstack) = 1 THEN "return" ELSE "chain"

\* Mutant: Invoke takes the interceptor it is about to run off the list of the
\* ClientConn.
Invoke_TrimsList ==
    /\ cpc = "idle"
    /\ \E name \in ClientRpcNames :
        LET args == Args("ctx", name, "testEncoding", PtrMsg("foobar")) IN
        /\ call' = [op |-> "Invoke", args |-> args]
        /\ IF dopts.unaryInt.kind # "nil"
           THEN /\ cstack' = <<CallUnaryClientInterceptor(dopts.unaryInt, dopts.unaryInts,
                                   args, ClientTerminal("finalInvoker"))>>
                /\ cpc' = "chain"
                /\ dopts' = [dopts EXCEPT !.unaryInts = SubSeq(@, 2, Len(@))]
                /\ UNCHANGED <<cevents, cret, cresult>>
           ELSE \E e \in ConnErrs :
                /\ cevents' = Append(cevents, ConnInvokeEvent(args, e))
                /\ cresult' = Ret(Replied(args, e), e)
                /\ cpc' = "done"
                /\ UNCHANGED <<cstack, cret, dopts>>
    /\ UNCHANGED <<serverVars, callVars, metaVars, opts>>

\* ClientConn.Invoke
Invoke ==
    /\ cpc = "idle"
    /\ \E name \in ClientRpcNames :
        LET args == Args("ctx", name, "testEncoding", PtrMsg("foobar")) IN
        /\ call' = [op |-> "Invoke", args |-> args]
        /\ IF dopts.unaryInt.kind # "nil"
           THEN /\ cstack' = <<CallUnaryClientInterceptor(dopts.unaryInt, dopts.unaryInts,
                                   args, ClientTerminal("finalInvoker"))>>
                /\ cpc' = "chain"
                /\ UNCHANGED <<cevents, cret, cresult>>
           ELSE \E e \in ConnErrs :
                /\ cevents' = Append(cevents, ConnInvokeEvent(args, e))
                /\ cresult' = Ret(Replied(args, e), e)
                /\ cpc' = "done"
                /\ UNCHANGED <<cstack, cret>>
    /\ UNCHANGED <<serverVars, callVars, metaVars, opts, dopts>>

\* ClientConn.NewStream
NewStream ==
    /\ cpc = "idle"
    /\ \E name \in ClientRpcNames :
        LET args == Args("ctx", name, "testEncoding", AbsentMsg) IN
        /\ call' = [op |-> "NewStream", args |-> args]
        /\ IF dopts.streamInt.kind # "nil"
           THEN /\ cstack' = <<CallStreamClientInterceptor(dopts.streamInt,
                                   dopts.streamInts, args,
                                   ClientTerminal("finalStreamer"))>>
                /\ cpc' = "chain"
                /\ UNCHANGED <<cevents, cret, cresult>>
           ELSE \E e \in ConnErrs :
                /\ cevents' = Append(cevents, ConnNewStreamEvent(args, e))
                /\ cresult' = Ret(Opened(args, e), e)
                /\ cpc' = "done"
                /\ UNCHANGED <<cstack, cret>>
    /\ UNCHANGED <<serverVars, callVars, metaVars, opts, dopts>>

\* A user client interceptor starts: its pre-logic, then either its call of
\* next or its return without one.
ClientInterceptorPre ==
    /\ cpc = "chain"
    /\ CTop.fn = "interceptor" /\ CTop.phase = "pre"
    /\ \E beh \in CTop.can :
        LET f == [CTop EXCEPT !.beh = beh, !.phase = "wait"] IN
        /\ cevents' = Append(cevents, ClientPreEvent(f))
        /\ IF beh \in ShortCircuits
           THEN /\ cstack' = CPop
                /\ cret' = Ret(ShortOut(beh, f.id), ShortErr(beh, f.id))
                /\ cpc' = ClientAfterReturn
           ELSE /\ LET args == IF beh = "substitute"
                                 THEN SubstituteArgs(f.id, f.args) ELSE f.args
                     IN  cstack' = Append(Append(CPop, f),
                                          IF f.flavor = "unary"
                                          THEN CallUnaryInvoker(f.next, args)
                                          ELSE CallStreamer(f.next, args))
                /\ UNCHANGED <<cret, cpc>>
    /\ UNCHANGED <<serverVars, callVars, metaVars, opts, dopts, call, cresult>>

\* How often the client interceptors of this call have called next so far.
ClientNextCalls ==
    Len(SelectSeq(cevents, LAMBDA e : \/ e.op = "again"
                                      \/ e.op = "pre" /\ e.beh \notin ShortCircuits))

\* next returned to a user client interceptor: it calls next once more with
\* the arguments it was called with, or runs its post-logic and returns.
ClientInterceptorPost ==
    /\ cpc = "chain"
    /\ CTop.fn = "interceptor" /\ CTop.phase = "wait"
    /\ \/ /\ CTop.beh = "repeat"
          /\ ClientNextCalls < MaxNextCalls
          /\ cevents' = Append(cevents, ClientAgainEvent(CTop))
          /\ cstack' = Append(cstack, IF CTop.flavor = "unary"
                                      THEN CallUnaryInvoker(CTop.next, CTop.args)
                                      ELSE CallStreamer(CTop.next, CTop.args))
          /\ UNCHANGED <<cret, cpc>>
       \/ /\ LET r == IF CTop.beh = "replace"
                      THEN ReplacedRet(CTop.flavor, CTop.id, cret)
                      ELSE IF CTop.beh = "swallow" THEN Ret(cret.val, NilErr)
                      ELSE cret IN
              /\ cevents' = Append(cevents, ClientPostEvent(CTop, r))
              /\ cret' = r
          /\ cstack' = CPop
          /\ cpc' = ClientAfterReturn
    /\ UNCHANGED <<serverVars, callVars, metaVars, opts, dopts, call, cresult>>

\* finalInvoker: cc.Conn.Invoke(ctx, rpc, enc, in, out)
finalInvoker ==
    /\ cpc = "chain"
    /\ CTop.fn = "terminal" /\ CTop.name = "finalInvoker"
    /\ \E e \in ConnErrs :
        /\ cevents' = cevents \o <<ClientTerminalEvent(CTop), ConnInvokeEvent(CTop.args, e)>>
        /\ cret' = Ret(Replied(CTop.args, e), e)
    /\ cstack' = CPop
    /\ cpc' = ClientAfterReturn
    /\ UNCHANGED <<serverVars, callVars, metaVars, opts, dopts, call, cresult>>

\* finalStreamer: cc.Conn.NewStream(ctx, rpc, enc)
finalStreamer ==
    /\ cpc = "chain"
    /\ CTop.fn = "terminal" /\ CTop.name = "finalStreamer"
    /\ \E e \in ConnErrs :
        /\ cevents' = cevents \o <<ClientTerminalEvent(CTop),
                                    ConnNewStreamEvent(CTop.args, e)>>
        /\ cret' = Ret(Opened(CTop.args, e), e)
    /\ cstack' = CPop
    /\ cpc' = ClientAfterReturn
    /\ UNCHANGED <<serverVars, callVars, metaVars, opts, dopts, call, cresult>>

\* Mutant: the error of the composed interceptor is dropped.
ClientConnReturn_DropsError ==
    /\ cpc = "return"
    /\ cresult' = Ret(cret.val, NilErr)
    /\ cpc' = "done"
    /\ UNCHANGED <<serverVars, callVars, metaVars, opts, dopts, call, cstack, cevents, cret>>

\* Invoke / NewStream return what the composed interceptor returned.
ClientConnReturn ==
    /\ cpc = "return"
    /\ cresult' = cret
    /\ cpc' = "done"
    /\ UNCHANGED <<serverVars, callVars, metaVars, opts, dopts, call, cstack, cevents, cret>>

NextClient ==
    \/ Invoke
    \/ NewStream
    \/ ClientInterceptorPre
    \/ ClientInterceptorPost
    \/ finalInvoker
    \/ finalStreamer
    \/ ClientConnReturn

SpecClient == InitClient /\ [][NextClient]_vars

\* A ClientConn built with lists of the same length of interceptors that can
\* do whatever their type allows.
InitClientAnyBehaviour ==
    /\ MuxUnused
    /\ \E n \in 0..MaxAnyInterceptors :
          opts = <<DialOption("unary", AnyClientInterceptorList("unary", n)),
                   DialOption("stream", AnyClientInterceptorList("stream", n))>>
    /\ dopts = NewClientConnWithOptions(opts)
    /\ cpc = "idle"
    /\ call = NoCall
    /\ cstack = <<>>
    /\ cevents = <<>>
    /\ cret = NoRet
    /\ cresult = NoRet
    /\ SingleCall
    /\ MetaUnused

(***************************************************************************)
(* Either program: a Mux handling a call, or a ClientConn making one.      *)
(***************************************************************************)

InitAll == Init \/ InitClient

NextAll == Next \/ NextClient

SpecAll == InitAll /\ [][NextAll]_vars

(***************************************************************************)
(* drpcmetadata in use: contexts are made from the background context by   *)
(* Add, AddPairs, ClearContext and ClearContextExcept.                     *)
(***************************************************************************)

\* The most drpcmetadata operations made.
MaxMetaOps == 3

\* The maps AddPairs is given.
MetaMaps == UNION {[ks -> MetaValues] : ks \in SUBSET MetaKeys}

\* The operation, given ctxs[i], key and value, returned ret; the maps were
\* before as they are now.
Returns(op, i, key, value, ret) ==
    /\ ctxs' = Append(ctxs, ret)
    /\ lastOp' = [op |-> op, arg |-> i, key |-> key, value |-> value,
                  ret |-> Len(ctxs) + 1, before |-> maps]

\* What Add(ctx, key, value) leaves: a context without a map gets a new one,
\* a context with a map has the pair stored in that very map.
AddTo(ms, ctx, key, value) ==
    IF ~GetFrom(ms, ctx).ok
    THEN [maps |-> Append(ms, key :> value), ctx |-> MapMetadata(Len(ms) + 1)]
    ELSE [maps |-> [ms EXCEPT ![ctx.ref] = (key :> value) @@ @], ctx |-> ctx]

\* for key, val := range metadata { ctx = Add(ctx, key, val) }, the keys left
\* to add being ks.
RECURSIVE AddPairsTo(_, _, _, _)
AddPairsTo(ms, ctx, metadata, ks) ==
    IF ks = {} THEN [maps |-> ms, ctx |-> ctx]
    ELSE LET key == CHOOSE k \in ks : TRUE
             r   == AddTo(ms, ctx, key, metadata[key])
         IN  AddPairsTo(r.maps, r.ctx, metadata, ks \ {key})

\* Add
Add ==
    /\ Len(ctxs) <= MaxMetaOps
    /\ \E i \in 1..Len(ctxs), key \in MetaKeys, value \in MetaValues :
        LET r == AddTo(maps, ctxs[i], key, value) IN
        /\ maps' = r.maps
        /\ Returns("Add", i, key, value, r.ctx)
    /\ UNCHANGED <<serverVars, clientVars, callVars>>

\* AddPairs
AddPairs ==
    /\ Len(ctxs) <= MaxMetaOps
    /\ \E i \in 1..Len(ctxs), metadata \in MetaMaps :
        LET r == AddPairsTo(maps, ctxs[i], metadata, DOMAIN metadata) IN
        /\ maps' = r.maps
        /\ Returns("AddPairs", i, "", "", r.ctx)
    /\ UNCHANGED <<serverVars, clientVars, callVars>>

\* ClearContext
ClearContext ==
    /\ Len(ctxs) <= MaxMetaOps
    /\ \E i \in 1..Len(ctxs) : Returns("ClearContext", i, "", "", NilMetadata)
    /\ UNCHANGED <<serverVars, clientVars, callVars, maps>>

\* Mutant: the other pairs are deleted from the map of ctx itself.
ClearContextExcept_DeletesInPlace ==
    /\ Len(ctxs) <= MaxMetaOps
    /\ \E i \in 1..Len(ctxs), key \in MetaKeys :
        LET g == Get(ctxs[i]) IN
        IF ~g.ok \/ key \notin DOMAIN g.md
        THEN /\ Returns("ClearContextExcept", i, key, "", NilMetadata)
             /\ UNCHANGED maps
        ELSE /\ maps' = [maps EXCEPT ![ctxs[i].ref] = key :> g.md[key]]
             /\ Returns("ClearContextExcept", i, key, "", ctxs[i])
    /\ UNCHANGED <<serverVars, clientVars, callVars>>

\* ClearContextExcept
ClearContextExcept ==
    /\ Len(ctxs) <= MaxMetaOps
    /\ \E i \in 1..Len(ctxs), key \in MetaKeys :
        LET g == Get(ctxs[i]) IN
        IF ~g.ok \/ key \notin DOMAIN g.md
        THEN /\ Returns("ClearContextExcept", i, key, "", NilMetadata)
             /\ UNCHANGED maps
        ELSE /\ maps' = Append(maps, key :> g.md[key])
             /\ Returns("ClearContextExcept", i, key, "", MapMetadata(Len(maps) + 1))
    /\ UNCHANGED <<serverVars, clientVars, callVars>>

\* The background context, and no Mux or ClientConn in use.
InitMeta ==
    /\ MuxUnused
    /\ ClientUnused
    /\ SingleCall
    /\ maps = <<>>
    /\ ctxs = <<NoMetadata>>
    /\ lastOp = NoOp

NextMeta ==
    \/ Add
    \/ AddPairs
    \/ ClearContext
    \/ ClearContextExcept

SpecMeta == InitMeta /\ [][NextMeta]_vars

(***************************************************************************)
(* Concurrent calls.  Two calls are in flight on one Mux, or on one        *)
(* ClientConn; the call variables hold the locals of the call that is      *)
(* running, parked those of the other, and the scheduler may switch        *)
(* between them at any step.                                               *)
(***************************************************************************)

\* The longest interceptor list of the Mux or ClientConn the concurrent calls
\* are made on.
MaxConcurrentInterceptors == 1

\* The locals of the running HandleRPC call, and those of a call not yet begun.
CallLocals ==
    [pc |-> pc, rpc |-> rpc, data |-> data, in |-> in, out |-> out, err |-> err,
     stack |-> stack, events |-> events, result |-> result]

NewCallLocals ==
    [pc |-> "idle", rpc |-> "", data |-> NoData, in |-> AbsentMsg, out |-> AbsentMsg,
     err |-> NilErr, stack |-> <<>>, events |-> <<>>, result |-> NilErr]

\* The scheduler runs another HandleRPC call: the running call is parked with
\* its locals and call c goes on with its own.
ResumeCall ==
    /\ pc # "unused"
    /\ \E c \in DOMAIN parked :
        /\ self' = c
        /\ parked' = [d \in (DOMAIN parked \ {c}) \cup {self} |->
                         IF d = self THEN CallLocals ELSE parked[d]]
        /\ pc' = parked[c].pc
        /\ rpc' = parked[c].rpc
        /\ data' = parked[c].data
        /\ in' = parked[c].in
        /\ out' = parked[c].out
        /\ err' = parked[c].err
        /\ stack' = parked[c].stack
        /\ events' = parked[c].events
        /\ result' = parked[c].result
    /\ UNCHANGED <<muxVars, clientVars, metaVars>>

\* A Mux built with lists of the same length, and two calls about to begin.
InitConcurrentServer ==
    /\ rpcs = Register
    /\ \E n \in 0..MaxConcurrentInterceptors :
          /\ unaryInts = InterceptorList("unary", n)
          /\ streamInts = InterceptorList("stream", n)
    /\ unaryInterceptor = NewWithInterceptors(unaryInts, streamInts).unaryInterceptor
    /\ streamInterceptor = NewWithInterceptors(unaryInts, streamInts).streamInterceptor
    /\ pc = NewCallLocals.pc
    /\ rpc = NewCallLocals.rpc
    /\ data = NewCallLocals.data
    /\ in = NewCallLocals.in
    /\ out = NewCallLocals.out
    /\ err = NewCallLocals.err
    /\ stack = NewCallLocals.stack
    /\ events = NewCallLocals.events
    /\ result = NewCallLocals.result
    /\ self = 1
    /\ parked = (2 :> NewCallLocals)
    /\ ClientUnused
    /\ MetaUnused

NextConcurrentServer == Next \/ ResumeCall

SpecConcurrentServer == InitConcurrentServer /\ [][NextConcurrentServer]_vars

\* The locals of the running Invoke / NewStream call, and those of a call not
\* yet begun.
ClientCallLocals ==
    [cpc |-> cpc, call |-> call, cstack |-> cstack, cevents |-> cevents, cret |-> cret,
     cresult |-> cresult]

NewClientCallLocals ==
    [cpc |-> "idle", call |-> NoCall, cstack |-> <<>>, cevents |-> <<>>, cret |-> NoRet,
     cresult |-> NoRet]

\* The scheduler runs another Invoke / NewStream call.
ResumeClientCall ==
    /\ cpc # "unused"
    /\ \E c \in DOMAIN parked :
        /\ self' = c
        /\ parked' = [d \in (DOMAIN parked \ {c}) \cup {self} |->
                         IF d = self THEN ClientCallLocals ELSE parked[d]]
        /\ cpc' = parked[c].cpc
        /\ call' = parked[c].call
        /\ cstack' = parked[c].cstack
        /\ cevents' = parked[c].cevents
        /\ cret' = parked[c].cret
        /\ cresult' = parked[c].cresult
    /\ UNCHANGED <<serverVars, metaVars, opts, dopts>>

\* A ClientConn built with lists of the same length, and two calls about to
\* begin.
InitConcurrentClient ==
    /\ MuxUnused
    /\ \E n \in 0..MaxConcurrentInterceptors :
          opts = <<DialOption("unary", InterceptorList("unary", n)),
                   DialOption("stream", InterceptorList("stream", n))>>
    /\ dopts = NewClientConnWithOptions(opts)
    /\ cpc = NewClientCallLocals.cpc
    /\ call = NewClientCallLocals.call
    /\ cstack = NewClientCallLocals.cstack
    /\ cevents = NewClientCallLocals.cevents
    /\ cret = NewClientCallLocals.cret
    /\ cresult = NewClientCallLocals.cresult
    /\ self = 1
    /\ parked = (2 :> NewClientCallLocals)
    /\ MetaUnused

NextConcurrentClient == NextClient \/ ResumeClientCall

SpecConcurrentClient == InitConcurrentClient /\ [][NextConcurrentClient]_vars

(***************************************************************************)
(* Calls one after the other, and calls whose interceptors call next more  *)
(* than once: the composed functions are called repeatedly.                *)
(***************************************************************************)

\* HandleRPC returned and the Mux is given its next call.
LaterCall == pc \in {"done", "panic"} /\ ResumeCall

\* Invoke / NewStream returned and the ClientConn is given its next call.
LaterClientCall == cpc = "done" /\ ResumeClientCall

InitRepeated ==
    \/ InitAnyBehaviour
    \/ InitClientAnyBehaviour
    \/ InitConcurrentServer
    \/ InitConcurrentClient

NextRepeated == Next \/ NextClient \/ LaterCall \/ LaterClientCall

SpecRepeated == InitRepeated /\ [][NextRepeated]_vars

(***************************************************************************)
(* Reading the trace.                                                      *)
(***************************************************************************)

EventsOf(ops) == SelectSeq(events, LAMBDA e : e.op \in ops)

Count(op) == Len(EventsOf({op}))

PreEvents == EventsOf({"pre"})

PostEvents == EventsOf({"post"})

\* A composed chain was called in this HandleRPC.
ChainCalled == PreEvents # <<>>

\* Control is back in HandleRPC after the chain or the receiver returned.
Returned == pc \in {"final", "done"}

\* The flavor of the chain that was called, and the list it was composed from.
ChainFlavor == PreEvents[1].flavor

ChainList == IF ChainFlavor = "unary" THEN unaryInts ELSE streamInts

Tag(e) == IF e.op = "handler" THEN <<"handler", 0>> ELSE <<e.op, e.id>>

\* The interceptor and terminal events of the call, in order.
ChainTrace ==
    LET s == EventsOf({"pre", "post", "handler"}) IN [i \in 1..Len(s) |-> Tag(s[i])]

\* pre 1, ..., pre n, handler, post n, ..., post 1
Onion(n) ==
    [i \in 1..(2 * n + 1) |->
        IF i <= n THEN <<"pre", i>>
        ELSE IF i = n + 1 THEN <<"handler", 0>>
        ELSE <<"post", 2 * n + 2 - i>>]

\* pre 1, ..., pre k, post k-1, ..., post 1
ShortCircuit(k) ==
    [i \in 1..(2 * k - 1) |-> IF i <= k THEN <<"pre", i>> ELSE <<"post", 2 * k - i>>]

\* The behaviours that call next exactly once and return its result unchanged.
Forwarding == {"forward", "substitute"}

\* Every interceptor that ran has one of the given behaviours.
AllBehave(behs) == \A i \in 1..Len(PreEvents) : PreEvents[i].beh \in behs

\* Every event of the chain belongs to the chain that was called.
OneFlavor ==
    \A i \in 1..Len(events) :
        events[i].op \in {"pre", "post"} => events[i].flavor = ChainFlavor

\* The composed call returned what the terminal handler returned.
ReturnsHandlerResult ==
    /\ Count("handlerReturn") = 1
    /\ out = EventsOf({"handlerReturn"})[1].out
    /\ err = EventsOf({"handlerReturn"})[1].err

\* The registration of the rpc being handled.
Registered == rpc \in DOMAIN rpcs

\* The first event is a receive on the original stream that succeeded / failed.
FirstIsRecv ==
    /\ events # <<>>
    /\ events[1].op = "MsgRecv"
    /\ events[1].stream = originalStream.val

RecvOk == FirstIsRecv /\ events[1].err.kind = "nil"

RecvFailed == FirstIsRecv /\ events[1].err.kind # "nil"

NoInterceptorEvent == EventsOf({"pre", "post", "handler", "handlerReturn"}) = <<>>

(***************************************************************************)
(* C1.                                                                     *)
(***************************************************************************)

\* C1 as stated: in a chain composed from [I1..In], n >= 1, in which every
\* interceptor calls next exactly once, one call of the composed function gives
\* pre 1, ..., pre n, handler, post n, ..., post 1, each once, and returns the
\* terminal handler's result.  An interceptor that calls next once and returns
\* its own message refutes the last part.
C1_AsStated ==
    (Returned /\ ChainCalled /\ AllBehave(Forwarding \cup {"replace"}))
        => /\ ChainTrace = Onion(Len(ChainList))
           /\ OneFlavor
           /\ ReturnsHandlerResult

\* C1 (amended): in a chain composed by chainUnaryInterceptors or
\* chainStreamInterceptors from [I1..In], n >= 1, in which every interceptor
\* calls next exactly once and returns next's result unchanged, one call of the
\* composed function gives the events pre 1, ..., pre n, handler, post n, ...,
\* post 1, each exactly once, and returns the terminal handler's result.
C1_OnionOrder ==
    (Returned /\ ChainCalled /\ AllBehave(Forwarding))
        => /\ ChainTrace = Onion(Len(ChainList))
           /\ OneFlavor
           /\ ReturnsHandlerResult

\* A chain of three forwarding unary interceptors has returned.
C1_Witness ==
    /\ Returned /\ ChainCalled /\ AllBehave({"forward"})
    /\ ChainFlavor = "unary"
    /\ Len(unaryInts) = 3
    /\ Len(PostEvents) = 3

(***************************************************************************)
(* C2.                                                                     *)
(***************************************************************************)

\* The interceptor that ran last returned an error without calling next, and
\* all that ran before it forwarded.
ShortCircuited ==
    /\ Returned /\ ChainCalled
    /\ PreEvents[Len(PreEvents)].beh = "shortErr"
    /\ \A i \in 1..(Len(PreEvents) - 1) : PreEvents[i].beh \in Forwarding

\* C2: if Ik returns an error without calling next while I1..Ik-1 each call next
\* once and forward its result, then I1..Ik-1 run pre- and post-logic, Ik+1..In
\* and the terminal handler (and the receiver) never run, and the composed call
\* returns exactly Ik's error with a nil result.
C2_ShortCircuit ==
    ShortCircuited =>
        LET k == PreEvents[Len(PreEvents)].id IN
        /\ ChainTrace = ShortCircuit(k)
        /\ OneFlavor
        /\ Count("handler") = 0
        /\ Count("receiver") = 0
        /\ out = AbsentMsg
        /\ err = InterceptorErr(k)

\* The second of three stream interceptors short-circuited.
C2_Witness ==
    /\ ShortCircuited
    /\ ChainFlavor = "stream"
    /\ Len(streamInts) = 3
    /\ PreEvents[Len(PreEvents)].id = 2
    /\ Len(PostEvents) = 1

(***************************************************************************)
(* C3.                                                                     *)
(***************************************************************************)

\* C3: HandleRPC with a name that is not in the registry returns a
\* protocol-kind error and performs no receive, send or close-send, and
\* invokes no interceptor and no receiver.
C3_UnknownRpc ==
    (pc # "idle" /\ ~Registered)
        => /\ pc = "done"
           /\ result.kind = "err"
           /\ result.class = "ProtocolError"
           /\ events = <<>>
           /\ stack = <<>>

\* An unknown name was handled by a Mux that has both chains.
C3_Witness ==
    /\ pc = "done"
    /\ rpc = UnknownName
    /\ unaryInts # <<>> /\ streamInts # <<>>
    /\ result = ProtocolError(UnknownName)

(***************************************************************************)
(* C4.                                                                     *)
(***************************************************************************)

BothConfigured == unaryInts # <<>> /\ streamInts # <<>>

\* An interceptor of the given flavor ran.
Ran(flavor) == \E i \in 1..Len(PreEvents) : PreEvents[i].flavor = flavor

\* C4 as stated: with both chains configured, each HandleRPC call runs exactly
\* one of them: the unary chain for a fully-unary rpc, the stream chain for the
\* other shapes.  A fully-unary call whose request cannot be received runs none.
C4_AsStated ==
    (pc = "done" /\ BothConfigured /\ Registered)
        => IF rpcs[rpc].unitary
           THEN Ran("unary") /\ ~Ran("stream")
           ELSE Ran("stream") /\ ~Ran("unary")

\* C4 (amended): with both chains configured, each HandleRPC call for a
\* registered rpc runs at most one chain, chosen by the call shape: a
\* fully-unary rpc runs only the unary chain, and runs it exactly when its
\* request was received; a stream-input rpc and a unary-input/stream-output rpc
\* each run the stream chain and only it.
C4_ChainSelection ==
    (BothConfigured /\ Registered)
        => IF rpcs[rpc].unitary
           THEN /\ ~Ran("stream")
                /\ pc = "done" => (Ran("unary") <=> RecvOk)
           ELSE /\ ~Ran("unary")
                /\ pc = "done" => Ran("stream")

\* A unary-input/stream-output call went through the stream chain of a Mux that
\* has both chains.
C4_Witness ==
    /\ pc = "done" /\ BothConfigured
    /\ rpc = "test.UnaryStreamMethod"
    /\ Ran("stream")
    /\ Count("receiver") = 1

(***************************************************************************)
(* C5.                                                                     *)
(***************************************************************************)

NoInterceptors == unaryInts = <<>> /\ streamInts = <<>>

\* The only chain configured does not match the shape of the rpc.
Mismatch ==
    /\ Registered
    /\ \/ unaryInts = <<>> /\ streamInts # <<>> /\ rpcs[rpc].unitary
       \/ unaryInts # <<>> /\ streamInts = <<>> /\ ~rpcs[rpc].unitary

\* What HandleRPC does with (o, e): nothing more on an error, one MsgSend of a
\* non-nil message with the registration's encoding, one CloseSend otherwise.
Disposed(o, e, rest) ==
    IF e.kind # "nil"
    THEN rest = <<>> /\ result = Wrap(e)
    ELSE IF o.kind = "ptr"
    THEN rest = <<MsgSendEvent(originalStream, o, rpcs[rpc].enc, result)>>
    ELSE rest = <<CloseSendEvent(originalStream, result)>>

\* The finished call is a direct invocation: the receive of a unary input, then
\* the receiver called by HandleRPC itself with the original stream and its
\* context, then the disposal of what it returned.
DirectRun ==
    LET needRecv == rpcs[rpc].in1 # "streamType"
        body     == IF needRecv THEN Tail(events) ELSE events
    IN  /\ needRecv => /\ FirstIsRecv
                       /\ events[1].enc = rpcs[rpc].enc
        /\ IF needRecv /\ RecvFailed
           THEN body = <<>> /\ result = Wrap(events[1].err)
           ELSE /\ body # <<>>
                /\ body[1].op = "receiver"
                /\ body[1].srv = rpcs[rpc].srv
                /\ body[1].ctx = Context(originalStream)
                /\ body[1].in1 = (IF needRecv THEN PtrMsg("request") ELSE originalStream)
                /\ body[1].in2 = originalStream
                /\ Disposed(body[1].out, body[1].err, Tail(body))

\* C5 as stated: when the only configured chain does not match the call shape,
\* HandleRPC invokes the receiver directly, no interceptor executes, and the
\* result is sent or close-sent as without interceptors.  When the unary input
\* cannot be received the receiver is not invoked.
C5_AsStated ==
    (pc = "done" /\ Mismatch)
        => /\ NoInterceptorEvent
           /\ Count("receiver") = 1
           /\ DirectRun

\* C5 (amended): when the only configured chain does not match the call shape,
\* no interceptor executes and HandleRPC does exactly what a Mux with no
\* interceptors does: it receives a unary input, returns a receive failure
\* without invoking the receiver, and otherwise invokes the receiver directly
\* and sends or close-sends its result.
C5_MismatchIsDirect ==
    /\ Mismatch => NoInterceptorEvent
    /\ (pc = "done" /\ (Mismatch \/ (Registered /\ NoInterceptors))) => DirectRun
    /\ (pc = "done" /\ Mismatch) => (Count("receiver") = 1 <=> ~RecvFailed)

\* A fully-unary call on a Mux with only a stream chain sent its response.
C5_Witness ==
    /\ pc = "done" /\ Mismatch
    /\ rpc = "test.UnaryMethod"
    /\ Count("receiver") = 1
    /\ Count("MsgSend") = 1

(***************************************************************************)
(* C6.                                                                     *)
(***************************************************************************)

\* C6: for a registered fully-unary rpc whose request receive fails, HandleRPC
\* returns a non-nil error, invokes neither the receiver nor any interceptor and
\* performs no send and no close-send, with or without a unary chain.
C6_RecvFailure ==
    (Registered /\ rpcs[rpc].unitary /\ RecvFailed)
        => /\ Len(events) = 1
           /\ stack = <<>>
           /\ pc \in {"final", "done"}
           /\ pc = "done" => result.kind = "err" /\ result.cause = events[1].err.cause

\* The receive failed on a Mux with a unary chain, and HandleRPC returned.
C6_Witness ==
    /\ pc = "done"
    /\ rpc = "test.UnaryMethod"
    /\ unaryInts # <<>>
    /\ RecvFailed
    /\ result.kind = "err"

\* The same on a Mux without a unary chain.
C6_WitnessNoChain ==
    /\ pc = "done"
    /\ rpc = "test.UnaryMethod"
    /\ unaryInts = <<>>
    /\ RecvFailed
    /\ result.kind = "err"

(***************************************************************************)
(* C7, C8.                                                                 *)
(***************************************************************************)

TheReceiver == EventsOf({"receiver"})[1]

\* The receiver ran (directly or below forwarding interceptors) and the call is
\* finished.
ReceiverForwarded ==
    /\ pc = "done"
    /\ Count("receiver") = 1
    /\ AllBehave(Forwarding)

LastEvent == events[Len(events)]

\* C7: when the receiver returns (nil, nil), directly or through forwarding
\* interceptors, HandleRPC calls CloseSend exactly once, sends no message and
\* returns CloseSend's result.
C7_NilResultClosesSend ==
    (ReceiverForwarded /\ ~(TheReceiver.out.kind = "ptr") /\ TheReceiver.err.kind = "nil")
        => /\ Count("CloseSend") = 1
           /\ Count("MsgSend") = 0
           /\ LastEvent.op = "CloseSend"
           /\ LastEvent.stream = originalStream.val
           /\ result = LastEvent.err

\* A nil pointer came back through two forwarding interceptors and CloseSend
\* failed.
C7_Witness ==
    /\ ReceiverForwarded
    /\ TheReceiver.out = NilPtrMsg /\ TheReceiver.err.kind = "nil"
    /\ Len(PreEvents) = 2
    /\ Count("CloseSend") = 1
    /\ result.kind = "err"

\* C8: when the receiver returns a non-nil message and a nil error, directly or
\* through forwarding interceptors, HandleRPC sends exactly that message once,
\* with the registration's encoding, and does not call CloseSend.
C8_MessageIsSent ==
    (ReceiverForwarded /\ TheReceiver.out.kind = "ptr" /\ TheReceiver.err.kind = "nil")
        => /\ Count("MsgSend") = 1
           /\ Count("CloseSend") = 0
           /\ LastEvent = MsgSendEvent(originalStream, TheReceiver.out, rpcs[rpc].enc,
                                       result)

\* The response of a directly invoked receiver was sent.
C8_Witness ==
    /\ ReceiverForwarded
    /\ TheReceiver.out = PtrMsg("response") /\ TheReceiver.err.kind = "nil"
    /\ ~ChainCalled
    /\ Count("MsgSend") = 1
    /\ result.kind = "nil"

(***************************************************************************)
(* C9.                                                                     *)
(***************************************************************************)

\* HandleRPC called the receiver itself or called a composed chain.
Invoked == ChainCalled \/ Count("receiver") > 0

\* What came back to HandleRPC, read from the trace: the outermost
\* interceptor's return on a chain path, the receiver's return otherwise.
ReturnedValue ==
    IF ChainCalled
    THEN IF PreEvents[1].beh = "shortErr"
         THEN [out |-> AbsentMsg, err |-> InterceptorErr(PreEvents[1].id)]
         ELSE [out |-> PostEvents[Len(PostEvents)].out,
               err |-> PostEvents[Len(PostEvents)].err]
    ELSE [out |-> TheReceiver.out, err |-> TheReceiver.err]

\* C9: if the receiver or the composed chain returns a non-nil error to
\* HandleRPC, HandleRPC returns an error wrapping it, in which the original
\* stays identifiable, and performs neither MsgSend nor CloseSend, whatever
\* result came with the error.
C9_ErrorIsWrapped ==
    (pc = "done" /\ Invoked /\ ReturnedValue.err.kind # "nil")
        => /\ result.kind = "err"
           /\ result.cause = ReturnedValue.err.cause
           /\ result.class = ReturnedValue.err.class
           /\ Count("MsgSend") = 0
           /\ Count("CloseSend") = 0

\* The chain returned a non-nil message together with the receiver's error.
C9_Witness ==
    /\ pc = "done" /\ ChainCalled
    /\ ReturnedValue.out.kind = "ptr"
    /\ ReturnedValue.err = NewErr("receiverErr")
    /\ result.cause = "receiverErr"

(***************************************************************************)
(* C10.                                                                    *)
(***************************************************************************)

\* Interceptor k replaced the result with a nil error and every interceptor
\* outside it forwarded.
Replaced(k) ==
    /\ pc = "done" /\ ChainCalled
    /\ k <= Len(PreEvents)
    /\ PreEvents[k].beh = "replace"
    /\ \A i \in 1..(k - 1) : PreEvents[i].beh \in Forwarding
    /\ ReturnedValue.err.kind = "nil"

\* C10: the message HandleRPC sends is the one the outermost interceptor of the
\* selected chain returned, not the receiver's: when an interceptor calls next
\* and returns another non-nil message with a nil error (the interceptors
\* outside it forwarding), exactly that message is sent, once, and the
\* interceptors have run in onion order around the receiver.
C10_ReplacementIsSent ==
    /\ (pc = "done" /\ ChainCalled /\ Count("MsgSend") > 0)
          => /\ Count("MsgSend") = 1
             /\ LastEvent.op = "MsgSend"
             /\ LastEvent.msg = ReturnedValue.out
    /\ \A k \in 1..MaxInterceptors :
          Replaced(k)
             => /\ LastEvent = MsgSendEvent(originalStream, Replacement(PreEvents[k].id),
                                            rpcs[rpc].enc, result)
                /\ Count("MsgSend") = 1
                /\ Count("CloseSend") = 0
                /\ Count("receiver") = 1
                /\ LastEvent.msg # TheReceiver.out
                /\ ChainTrace = Onion(Len(ChainList))

\* The first of two unary interceptors replaced the receiver's response.
C10_Witness ==
    /\ Replaced(1)
    /\ ChainFlavor = "unary"
    /\ Len(unaryInts) = 2
    /\ TheReceiver.out = PtrMsg("response")
    /\ LastEvent.op = "MsgSend"
    /\ LastEvent.msg = Replacement(1)

(***************************************************************************)
(* C11.                                                                    *)
(***************************************************************************)

\* What the interceptor of pre event p handed to next.
NextArg(p) ==
    IF p.beh = "substitute" THEN SubstituteArg(p.flavor, p.id, p.arg) ELSE p.arg

\* The stream the innermost interceptor that ran handed to next.
InnermostStream == NextArg(PreEvents[Len(PreEvents)])

\* A unary-input/stream-output rpc is being handled through the stream chain.
UnaryInStreamOutChain ==
    /\ Registered
    /\ ~rpcs[rpc].unitary /\ rpcs[rpc].in1 # "streamType"
    /\ ChainCalled

\* The receiver frames among the active calls.
ReceiverFrames == SelectSeq(stack, LAMBDA f : f.fn = "receiver")

\* C11: for a unary-input/stream-output rpc dispatched through the stream chain,
\* the input is received at most once, after the pre-logic of every interceptor
\* of the chain and before the receiver runs, from the stream the innermost
\* interceptor passed to next; the receiver gets the message that stream's
\* receive produced (with a wrapping stream's modification), that stream and
\* that stream's context.
C11_RecvInsideChain ==
    UnaryInStreamOutChain =>
        /\ Count("MsgRecv") <= 1
        /\ \A i \in 1..Len(events) :
              events[i].op = "MsgRecv"
                 => /\ Len(PreEvents) = Len(streamInts)
                    /\ \A j \in 1..Len(events) :
                          events[j].op = "pre" => j < i
                    /\ \A j \in 1..Len(events) :
                          events[j].op = "receiver" => i < j
                    /\ events[i - 1].op = "handler"
                    /\ events[i].stream = InnermostStream.val
        /\ (ReceiverFrames # <<>> \/ Count("receiver") > 0)
              => /\ Count("MsgRecv") = 1
                 /\ EventsOf({"MsgRecv"})[1].err.kind = "nil"
        /\ \A k \in 1..Len(ReceiverFrames) :
              /\ ReceiverFrames[k].in1 = Received(InnermostStream, NilErr)
              /\ ReceiverFrames[k].in2 = InnermostStream
        /\ \A j \in 1..Len(events) :
              events[j].op = "receiver"
                 => /\ events[j].in1 = Received(InnermostStream, NilErr)
                    /\ events[j].in2 = InnermostStream
                    /\ events[j].ctx = Context(InnermostStream)
        /\ (pc = "done" /\ AllBehave(Behaviours \ {"shortErr"})) => Count("MsgRecv") = 1

\* The inner of two stream interceptors wrapped the stream and the receiver got
\* the message as the wrapping stream modified it.
C11_Witness ==
    /\ UnaryInStreamOutChain /\ pc = "done"
    /\ Len(streamInts) = 2
    /\ PreEvents[1].beh = "forward" /\ PreEvents[2].beh = "substitute"
    /\ Count("receiver") = 1
    /\ TheReceiver.in1 = PtrMsg("MODIFIED_2_request")
    /\ TheReceiver.in2 = modifyingStream(2, originalStream)

(***************************************************************************)
(* C12.                                                                    *)
(***************************************************************************)

\* A receive that succeeded is in the trace before position j.
ReceivedBefore(j) ==
    \E i \in 1..(j - 1) : events[i].op = "MsgRecv" /\ events[i].err.kind = "nil"

\* C12: when the input of the rpc is unary-shaped, the dispatcher's receive has
\* completed before the receiver starts; a MsgSend or CloseSend of the
\* dispatcher comes after the receiver, when it was invoked, has returned: it
\* is the last event, and no call is active any more.
C12_RecvBeforeSendAfter ==
    /\ (Registered /\ rpcs[rpc].in1 # "streamType")
          => /\ ReceiverFrames # <<>> => ReceivedBefore(Len(events) + 1)
             /\ \A j \in 1..Len(events) :
                   events[j].op = "receiver" => ReceivedBefore(j)
    /\ \A i \in 1..Len(events) :
          events[i].op \in {"MsgSend", "CloseSend"}
             => /\ i = Len(events)
                /\ stack = <<>>
                /\ pc = "done"
                /\ \A j \in 1..Len(events) : events[j].op = "receiver" => j < i

\* A directly invoked receiver of a unary-input rpc has started, after the
\* receive.
C12_Witness ==
    /\ rpc = "test.UnaryStreamMethod"
    /\ streamInts = <<>>
    /\ ReceiverFrames # <<>>
    /\ ReceiverFrames[1].via = "direct"
    /\ Count("MsgRecv") = 1

\* The response of a receiver called below a unary chain was sent.
C12_WitnessSend ==
    /\ pc = "done"
    /\ rpc = "test.UnaryMethod" /\ ChainCalled
    /\ Count("receiver") = 1
    /\ LastEvent.op = "MsgSend"

(***************************************************************************)
(* C16.                                                                    *)
(***************************************************************************)

\* The list configured for the shape of the rpc being handled is empty.
NoChainForShape ==
    /\ Registered
    /\ IF rpcs[rpc].unitary THEN unaryInts = <<>> ELSE streamInts = <<>>

\* C16: chainUnaryInterceptors and chainStreamInterceptors give the nil
\* composition for an empty list, not a wrapper, so a Mux built from an empty
\* list holds nil, never selects that chain, and a call of the matching shape
\* is a direct invocation without any interceptor or terminal-closure event.
C16_EmptyIsAbsent ==
    /\ chainUnaryInterceptors(<<>>) = NilFunc
    /\ chainStreamInterceptors(<<>>) = NilFunc
    /\ unaryInts = <<>>
          => unaryInterceptor = NilFunc /\ ~UnaryCaseCond /\ ~Ran("unary")
    /\ streamInts = <<>>
          => streamInterceptor = NilFunc /\ ~StreamCaseCond /\ ~Ran("stream")
    /\ NoChainForShape => NoInterceptorEvent
    /\ (pc = "done" /\ NoChainForShape) => DirectRun

\* A stream-input call on a Mux built from two empty lists ran its receiver.
C16_Witness ==
    /\ pc = "done" /\ NoInterceptors
    /\ rpc = "test.StreamMethod"
    /\ unaryInterceptor = NilFunc /\ streamInterceptor = NilFunc
    /\ Count("receiver") = 1
    /\ Len(events) = 2

(***************************************************************************)
(* C19.                                                                    *)
(***************************************************************************)

\* The interceptor frames among the active calls.
InterceptorFrames == SelectSeq(stack, LAMBDA f : f.fn = "interceptor")

\* C19: in a composed server chain every interceptor receives the rpc name
\* that was passed to the composed function, whatever the interceptors
\* outside it passed to next; the chained handlers carry that same name.
C19_NameIsStable ==
    /\ \A i \in 1..Len(PreEvents) : PreEvents[i].rpc = rpc
    /\ \A k \in 1..Len(InterceptorFrames) :
          /\ InterceptorFrames[k].rpc = rpc
          /\ InterceptorFrames[k].next.kind = "chained"
                => InterceptorFrames[k].next.rpc = rpc

\* Three stream interceptors ran, the outer two handing a wrapping stream to
\* next, and all three saw the name given to HandleRPC.
C19_Witness ==
    /\ pc = "done" /\ rpc = "test.StreamMethod"
    /\ Len(PreEvents) = 3
    /\ PreEvents[1].beh = "substitute" /\ PreEvents[2].beh = "substitute"
    /\ PreEvents[3].arg = modifyingStream(2, modifyingStream(1, originalStream))
    /\ \A i \in 1..3 : PreEvents[i].rpc = "test.StreamMethod"

(***************************************************************************)
(* Reading the client trace.                                               *)
(***************************************************************************)

CEventsOf(ops) == SelectSeq(cevents, LAMBDA e : e.op \in ops)

CCount(op) == Len(CEventsOf({op}))

CPreEvents == CEventsOf({"pre"})

CPostEvents == CEventsOf({"post"})

ClientDone == cpc = "done"

\* The list and the underlying operation that belong to the call made.
ClientList == IF call.op = "Invoke" THEN dopts.unaryInts ELSE dopts.streamInts

ClientFlavor == IF call.op = "Invoke" THEN "unary" ELSE "stream"

ConnOp == IF call.op = "Invoke" THEN "Conn.Invoke" ELSE "Conn.NewStream"

ConnEvents == CEventsOf({"Conn.Invoke", "Conn.NewStream"})

\* What the underlying connection handed back in event e.
ConnRet(e) ==
    LET args == Args(e.ctx, e.rpc, e.enc, e.in) IN
    IF e.op = "Conn.Invoke" THEN Ret(Replied(args, e.err), e.err)
    ELSE Ret(Opened(args, e.err), e.err)

CTag(e) == IF e.op \in {"pre", "post"} THEN <<e.op, e.flavor, e.id>> ELSE <<e.op, "", 0>>

\* The interceptor events and the calls of the underlying connection, in order.
ClientTrace ==
    LET t == CEventsOf({"pre", "post", "Conn.Invoke", "Conn.NewStream"}) IN
    [i \in 1..Len(t) |-> CTag(t[i])]

\* pre of list[1], ..., pre of list[n], the underlying call, post of list[n],
\* ..., post of list[1]
ClientOnion(list, op) ==
    LET n == Len(list) IN
    [i \in 1..(2 * n + 1) |->
        IF i <= n THEN <<"pre", list[i].flavor, list[i].id>>
        ELSE IF i = n + 1 THEN <<op, "", 0>>
        ELSE <<"post", list[2 * n + 2 - i].flavor, list[2 * n + 2 - i].id>>]

\* pre of list[1], ..., pre of list[k], post of list[k-1], ..., post of list[1]
ClientShortCircuit(list, k) ==
    [i \in 1..(2 * k - 1) |->
        IF i <= k THEN <<"pre", list[i].flavor, list[i].id>>
        ELSE <<"post", list[2 * k - i].flavor, list[2 * k - i].id>>]

\* Every client interceptor that ran has one of the given behaviours.
ClientAllBehave(behs) == \A i \in 1..Len(CPreEvents) : CPreEvents[i].beh \in behs

(***************************************************************************)
(* C13.                                                                    *)
(***************************************************************************)

\* The call went through a chain of at least two interceptors and the
\* underlying connection was called exactly once, between the pre-logic and
\* the post-logic of all of them, by a terminal that ran once.
ClientOnionRun ==
    /\ ClientTrace = ClientOnion(ClientList, ConnOp)
    /\ CCount("terminal") = 1
    /\ CCount(ConnOp) = 1

\* C13 as stated: with n >= 2 client interceptors that each call next exactly
\* once, Invoke (NewStream) runs the pre-logic of I1..In, the underlying
\* Invoke (NewStream) once, the post-logic of In..I1, and returns the
\* underlying call's result.  An interceptor that calls next once and returns
\* a result of its own refutes the last part.
C13_AsStated ==
    (ClientDone /\ Len(ClientList) >= 2 /\ ClientAllBehave(Forwarding \cup {"replace"}))
        => /\ ClientOnionRun
           /\ cresult = ConnRet(ConnEvents[1])

\* C13 (amended): with n >= 2 client interceptors that each call next exactly
\* once and return its result unchanged, Invoke (NewStream) runs the pre-logic
\* of I1..In, the underlying Invoke (NewStream) exactly once, the post-logic of
\* In..I1, and returns the underlying call's result; the terminal runs once
\* and never re-enters the chain.
C13_ClientOnionOrder ==
    (ClientDone /\ Len(ClientList) >= 2 /\ ClientAllBehave(Forwarding))
        => /\ ClientOnionRun
           /\ cresult = ConnRet(ConnEvents[1])

\* Invoke went through three forwarding interceptors and the connection failed.
C13_Witness ==
    /\ ClientDone /\ call.op = "Invoke"
    /\ Len(dopts.unaryInts) = 3
    /\ ClientAllBehave({"forward"})
    /\ Len(CPostEvents) = 3
    /\ cresult.err = NewErr("connErr")

\* NewStream went through two forwarding interceptors and returned the stream.
C13_WitnessStream ==
    /\ ClientDone /\ call.op = "NewStream"
    /\ Len(dopts.streamInts) = 2
    /\ ClientAllBehave({"forward"})
    /\ Len(CPostEvents) = 2
    /\ cresult = Ret(StreamVal(call.args.rpc), NilErr)

(***************************************************************************)
(* C14.                                                                    *)
(***************************************************************************)

\* The client interceptor that ran last returned an error without calling next.
ClientShortCircuited ==
    /\ CPreEvents # <<>>
    /\ CPreEvents[Len(CPreEvents)].beh = "shortErr"

\* The underlying connection is not called and no interceptor inside the one
\* that short-circuited runs.
NothingInside ==
    /\ ConnEvents = <<>>
    /\ CCount("terminal") = 0
    /\ \A i \in 1..Len(CPreEvents) :
          /\ CPreEvents[i].id = ClientList[i].id
          /\ CPreEvents[i].flavor = ClientFlavor
    /\ ClientDone => ClientTrace = ClientShortCircuit(ClientList, Len(CPreEvents))

DirectCall ==
    /\ Len(cevents) = 1
    /\ cevents[1] = (IF call.op = "Invoke"
                     THEN ConnInvokeEvent(call.args, cresult.err)
                     ELSE ConnNewStreamEvent(call.args, cresult.err))
    /\ cresult = ConnRet(cevents[1])

\* C15: a ClientConn built with no unary (stream) interceptors, also through an
\* option that names none, has no effective unary (stream) interceptor; Invoke
\* (NewStream) calls the underlying Invoke (NewStream) exactly once with the
\* caller's arguments and returns its result unchanged, and no interceptor or
\* terminal event occurs.
C15_NoInterceptorsIsDirect ==
    /\ dopts.unaryInts = <<>> => dopts.unaryInt = NilFunc
    /\ dopts.streamInts = <<>> => dopts.streamInt = NilFunc
    /\ (call.op # "" /\ ClientList = <<>>)
          => /\ ClientDone
             /\ cstack = <<>>
             /\ DirectCall

\* Invoke on a ClientConn built with WithChainUnaryInterceptor() and nothing
\* else returned the connection's reply.
C15_Witness ==
    /\ opts = <<DialOption("unary", <<>>)>>
    /\ ClientDone /\ call.op = "Invoke"
    /\ cevents = <<ConnInvokeEvent(call.args, NilErr)>>
    /\ cresult = Ret(PtrMsg("mocked response for request: foobar"), NilErr)

\* NewStream on a ClientConn that has unary interceptors only.
C15_WitnessStream ==
    /\ dopts.unaryInts # <<>> /\ dopts.streamInts = <<>>
    /\ ClientDone /\ call.op = "NewStream"
    /\ cresult.err = NewErr("connErr")

(***************************************************************************)
(* C17.                                                                    *)
(***************************************************************************)

\* The interceptor frames among the active client calls.
ClientInterceptorFrames == SelectSeq(cstack, LAMBDA f : f.fn = "interceptor")

\* The terminals the dispatcher and the ClientConn pass to their chains.
ServerTerminals ==
    {TerminalHandler(w) : w \in {"unary", "streamIn", "unaryInStreamOut"}}

ClientTerminals == {ClientTerminal(n) : n \in {"finalInvoker", "finalStreamer"}}

\* C17: a list of exactly one interceptor composes to that interceptor itself,
\* for the server's unary and stream chains and the client's: what the Mux or
\* the ClientConn holds is the interceptor, calling the composition with a
\* terminal T is the call of the interceptor with T as next, and while the
\* interceptor runs its next is the terminal itself, not a wrapper around it.
C17_SingleIsItself ==
    /\ Len(unaryInts) = 1
          => /\ unaryInterceptor = unaryInts[1]
             /\ \A T \in ServerTerminals :
                   CallUnaryInterceptor(unaryInterceptor, "ctx", PtrMsg("request"), "name", T)
                     = InterceptorFrame(unaryInts[1], "ctx", PtrMsg("request"), "name", T)
    /\ Len(streamInts) = 1
          => /\ streamInterceptor = streamInts[1]
             /\ \A T \in ServerTerminals :
                   CallStreamInterceptor(streamInterceptor, originalStream, "name", T)
                     = InterceptorFrame(streamInts[1], "", originalStream, "name", T)
    /\ (ChainCalled /\ Len(ChainList) = 1)
          => /\ \A k \in 1..Len(InterceptorFrames) :
                   InterceptorFrames[k].next \in ServerTerminals
             /\ (Returned /\ AllBehave(Behaviours \ {"shortErr"}))
                   => ChainTrace = Onion(1)
    /\ Len(dopts.unaryInts) = 1
          => /\ dopts.unaryInt = dopts.unaryInts[1]
             /\ \A T \in ClientTerminals :
                   CallUnaryClientInterceptor(dopts.unaryInt, dopts.unaryInts, call.args, T)
                     = ClientInterceptorFrame(dopts.unaryInts[1], call.args, T)
    /\ Len(dopts.streamInts) = 1
          => /\ dopts.streamInt = dopts.streamInts[1]
             /\ \A T \in ClientTerminals :
                   CallStreamClientInterceptor(dopts.streamInt, dopts.streamInts,
                                               call.args, T)
                     = ClientInterceptorFrame(dopts.streamInts[1], call.args, T)
    /\ (call.op # "" /\ Len(ClientList) = 1)
          => /\ \A k \in 1..Len(ClientInterceptorFrames) :
                   /\ ClientInterceptorFrames[k].next \in ClientTerminals
                   /\ ClientInterceptorFrames[k].args = call.args
             /\ (ClientDone /\ ClientAllBehave(Behaviours \ {"shortErr"}))
                   => /\ ClientTrace = ClientOnion(ClientList, ConnOp)
                      /\ CCount("terminal") = 1

\* NewStream went through the single stream interceptor of a ClientConn.
C17_Witness ==
    /\ ClientDone /\ call.op = "NewStream"
    /\ Len(dopts.streamInts) = 1
    /\ dopts.streamInt = UserInterceptor("stream", 1)
    /\ Len(CPreEvents) = 1 /\ Len(CPostEvents) = 1
    /\ CCount("Conn.NewStream") = 1

\* A fully-unary call went through the single unary interceptor of a Mux.
C17_WitnessServer ==
    /\ pc = "done" /\ rpc = "test.UnaryMethod"
    /\ Len(unaryInts) = 1
    /\ unaryInterceptor = UserInterceptor("unary", 1)
    /\ Len(PreEvents) = 1 /\ Len(PostEvents) = 1
    /\ Count("receiver") = 1

(***************************************************************************)
(* C18.                                                                    *)
(***************************************************************************)

\* The interceptors of a flavor the options name, in argument order.
RECURSIVE Concat(_, _)
Concat(os, flavor) ==
    IF os = <<>> THEN <<>>
    ELSE (IF Head(os).with = flavor THEN Head(os).ints ELSE <<>>) \o Concat(Tail(os), flavor)

\* C18: the dial options are applied in argument order and each appends, so
\* the configured list is the concatenation of the options' interceptors in
\* the order of addition; the first interceptor added runs outermost, each
\* interceptor's next leads to the one added after it, and the next of the last
\* one added is the terminal invoker or streamer.
C18_OrderOfAddition ==
    /\ dopts.unaryInts = Concat(opts, "unary")
    /\ dopts.streamInts = Concat(opts, "stream")
    /\ \A i \in 1..Len(dopts.unaryInts) : dopts.unaryInts[i] = UserInterceptor("unary", i)
    /\ \A i \in 1..Len(dopts.streamInts) :
          dopts.streamInts[i] = UserInterceptor("stream", i)
    /\ \A i \in 1..Len(CPreEvents) : CPreEvents[i].id = i
    /\ \A k \in 1..Len(ClientInterceptorFrames) :
          LET f == ClientInterceptorFrames[k] IN
          /\ f.id = k
          /\ IF f.id = Len(ClientList)
             THEN f.next \in ClientTerminals
             ELSE /\ f.next.kind = "chained"
                  /\ f.next.interceptor = UserInterceptor(f.flavor, f.id + 1)

\* Two options added two and one unary interceptors; Invoke ran them in the
\* order of addition.
C18_Witness ==
    /\ opts = <<DialOption("unary", InterceptorList("unary", 2)),
                DialOption("unary", <<UserInterceptor("unary", 3)>>)>>
    /\ ClientDone /\ call.op = "Invoke"
    /\ Len(CPreEvents) = 3
    /\ ClientAllBehave({"forward"})
    /\ ClientTrace = ClientOnion(InterceptorList("unary", 3), "Conn.Invoke")

(***************************************************************************)
(* C20.                                                                    *)
(***************************************************************************)

\* C20 as stated: in a client chain every interceptor and the terminal call on
\* the underlying connection receive the rpc name that was passed to Invoke /
\* NewStream, whatever an outer interceptor passes to next.  The chained
\* closures hand on the name they are called with, so an interceptor that
\* passes another name to next rebinds it for every layer inside.
C20_ClientNameIsStable ==
    /\ \A i \in 1..Len(CPreEvents) : CPreEvents[i].args.rpc = call.args.rpc
    /\ \A i \in 1..Len(ConnEvents) : ConnEvents[i].rpc = call.args.rpc

(***************************************************************************)
(* C21.                                                                    *)
(***************************************************************************)

\* Every interceptor that ran handed to next the context (unary chain) or the
\* stream (stream chain) it had received.
PassesUnchanged == AllBehave(Behaviours \ {"substitute"})

\* C21: HandleRPC never substitutes or derives a context: on the unary-chain
\* path, the stream-chain path and the direct path, when every interceptor
\* hands to next the context or stream it received, the receiver is invoked
\* with exactly the context the inbound stream's Context() returns; the
\* outermost interceptor of a unary chain is given that same context.
C21_ContextIsInbound ==
    /\ \A i \in 1..Len(PreEvents) :
          (i = 1 /\ PreEvents[i].flavor = "unary")
             => PreEvents[i].ctx = Context(originalStream)
    /\ PassesUnchanged
          => /\ \A k \in 1..Len(ReceiverFrames) :
                   ReceiverFrames[k].ctx = Context(originalStream)
             /\ \A j \in 1..Len(events) :
                   events[j].op = "receiver" => events[j].ctx = Context(originalStream)

\* The receiver ran below two unary interceptors that handed on what they got.
C21_Witness ==
    /\ pc = "done" /\ rpc = "test.UnaryMethod"
    /\ Len(PreEvents) = 2 /\ PassesUnchanged
    /\ PreEvents[2].beh = "replace"
    /\ Count("receiver") = 1
    /\ TheReceiver.ctx = "ctx_s0"

\* The same below a stream chain, and on the direct path.
C21_WitnessStream ==
    /\ pc = "done" /\ rpc = "test.UnaryStreamMethod"
    /\ Len(PreEvents) = 2 /\ PassesUnchanged
    /\ Count("receiver") = 1
    /\ TheReceiver.ctx = "ctx_s0"

C21_WitnessDirect ==
    /\ pc = "done" /\ rpc = "test.StreamMethod"
    /\ ~ChainCalled
    /\ Count("receiver") = 1
    /\ TheReceiver.ctx = "ctx_s0"

(***************************************************************************)
(* C24.                                                                    *)
(***************************************************************************)

\* What HandleRPC does at the end for a result that is not to be sent: one
\* CloseSend on the inbound stream, whose result it returns, and no MsgSend.
ClosedWithoutSend ==
    /\ Count("MsgSend") = 0
    /\ Count("CloseSend") = 1
    /\ LastEvent = CloseSendEvent(originalStream, result)

\* C24: a nil pointer held in a non-nil interface value that comes back to
\* HandleRPC with a nil error, from the receiver or from the chain, is treated
\* exactly like an absent result: no message is sent, CloseSend is called once
\* and its result returned.
C24_NilPointerIsAbsent ==
    (pc = "done" /\ Invoked /\ ReturnedValue.err.kind = "nil"
        /\ ReturnedValue.out \in {NilPtrMsg, AbsentMsg})
        => ClosedWithoutSend

\* A directly invoked receiver returned a nil pointer and CloseSend succeeded.
C24_Witness ==
    /\ pc = "done" /\ ~ChainCalled
    /\ Count("receiver") = 1
    /\ TheReceiver.out = NilPtrMsg /\ TheReceiver.err.kind = "nil"
    /\ events[Len(events)] = CloseSendEvent(originalStream, NilErr)
    /\ result = NilErr

\* The same with an absent result.
C24_WitnessAbsent ==
    /\ pc = "done" /\ ~ChainCalled
    /\ Count("receiver") = 1
    /\ TheReceiver.out = AbsentMsg /\ TheReceiver.err.kind = "nil"
    /\ events[Len(events)] = CloseSendEvent(originalStream, NilErr)
    /\ result = NilErr

(***************************************************************************)
(* C25.                                                                    *)
(***************************************************************************)

\* A stream-input rpc is being handled.
StreamInput == Registered /\ rpcs[rpc].in1 = "streamType"

\* The stream the receiver of a stream-input rpc is to get.
StreamForReceiver == IF ChainCalled THEN InnermostStream ELSE originalStream

\* C25: for a stream-input rpc the dispatcher receives no message, and the
\* receiver is invoked with one and the same stream as its input argument and
\* its stream handle: the stream the innermost interceptor passed to next on
\* the stream-chain path, the original stream on the direct path.
C25_StreamInputGetsStream ==
    StreamInput =>
        /\ Count("MsgRecv") = 0
        /\ \A k \in 1..Len(ReceiverFrames) :
              /\ ReceiverFrames[k].in1 = ReceiverFrames[k].in2
              /\ ReceiverFrames[k].in1 = StreamForReceiver
              /\ ChainCalled => Len(PreEvents) = Len(streamInts)
        /\ \A j \in 1..Len(events) :
              events[j].op = "receiver"
                 => /\ events[j].in1 = events[j].in2
                    /\ events[j].in1 = StreamForReceiver
                    /\ events[j].in1.kind = "stream"

\* The receiver of a stream-input rpc got the wrapping stream of the single
\* stream interceptor, twice.
C25_Witness ==
    /\ pc = "done" /\ rpc = "test.StreamMethod"
    /\ Len(streamInts) = 1
    /\ PreEvents[1].beh = "substitute"
    /\ Count("receiver") = 1
    /\ TheReceiver.in1 = modifyingStream(1, originalStream)
    /\ TheReceiver.in2 = modifyingStream(1, originalStream)

\* On the direct path it got the original stream, twice.
C25_WitnessDirect ==
    /\ pc = "done" /\ rpc = "test.StreamMethod"
    /\ streamInts = <<>>
    /\ Count("receiver") = 1
    /\ TheReceiver.in1 = originalStream
    /\ TheReceiver.in2 = originalStream

(***************************************************************************)
(* C26.                                                                    *)
(***************************************************************************)

\* The error with which the step of event e failed, NilErr when it did not:
\* a receive, the receiver, a send or a close-send that returned an error, an
\* interceptor that returned an error of its own.
FailureOf(e) ==
    IF e.op \in {"MsgRecv", "receiver", "MsgSend", "CloseSend"} THEN e.err
    ELSE IF e.op = "pre" /\ e.beh = "shortErr" THEN InterceptorErr(e.id)
    ELSE NilErr

\* The positions of the trace at which a step failed.
Failures == {i \in 1..Len(events) : FailureOf(events[i]).kind # "nil"}

\* How often interceptor i of the chain started.
Started(i) == Len(SelectSeq(PreEvents, LAMBDA p : p.id = i))

\* C26: HandleRPC performs no retry and suppresses no error.  The input
\* receive, the receiver, every interceptor, MsgSend and CloseSend are each
\* attempted at most once in a call, nothing is attempted after a step failed,
\* and when one of them failed (the interceptors returning the error they got
\* from next) HandleRPC returns a non-nil error, the one of the failed step.
C26_NoRetryNoSuppression ==
    /\ \A op \in {"MsgRecv", "receiver", "MsgSend", "CloseSend", "handler"} : Count(op) <= 1
    /\ \A i \in 1..MaxInterceptors : Started(i) <= 1
    /\ Cardinality(Failures) <= 1
    /\ \A i \in Failures :
          /\ \A j \in (i + 1)..Len(events) : events[j].op \in {"post", "handlerReturn"}
          /\ pc = "done" => /\ result.kind = "err"
                            /\ result.cause = FailureOf(events[i]).cause

\* A receive inside a chain of two stream interceptors failed and HandleRPC
\* returned the error.
C26_Witness ==
    /\ pc = "done" /\ rpc = "test.UnaryStreamMethod"
    /\ Len(PreEvents) = 2 /\ Len(PostEvents) = 2
    /\ Count("MsgRecv") = 1
    /\ EventsOf({"MsgRecv"})[1].err = NewErr("recvErr")
    /\ result.kind = "err" /\ result.cause = "recvErr"

\* The receiver failed; the MsgSend failed; the CloseSend failed; an
\* interceptor failed.
C26_WitnessReceiver ==
    /\ pc = "done" /\ Count("receiver") = 1
    /\ TheReceiver.err = NewErr("receiverErr")
    /\ result.cause = "receiverErr"

C26_WitnessSend ==
    /\ pc = "done" /\ Count("MsgSend") = 1
    /\ LastEvent.err = NewErr("sendErr")
    /\ result = NewErr("sendErr")

C26_WitnessClose ==
    /\ pc = "done" /\ Count("CloseSend") = 1
    /\ LastEvent.err = NewErr("closeErr")
    /\ result = NewErr("closeErr")

C26_WitnessInterceptor ==
    /\ pc = "done" /\ Len(PreEvents) = 3
    /\ PreEvents[3].beh = "shortErr"
    /\ result.cause = InterceptorErr(3).cause

(***************************************************************************)
(* C29.                                                                    *)
(***************************************************************************)

\* A fully-unary rpc is past the switch of a Mux that has a unary chain.
UnaryChainPath ==
    /\ Registered /\ rpcs[rpc].unitary
    /\ unaryInts # <<>>
    /\ pc \notin {"idle", "switch"}

\* C29: on the fully-unary path with a unary chain configured the request is
\* received from the original stream exactly once, before the pre-logic of the
\* outermost interceptor; the outermost interceptor is called with the decoded
\* request and the rpc name given to HandleRPC; the receiver is called with the
\* request the innermost interceptor passed to next and the original stream.
C29_UnaryChainPath ==
    UnaryChainPath =>
        /\ Count("MsgRecv") = 1
        /\ FirstIsRecv
        /\ events[1].enc = rpcs[rpc].enc
        /\ ChainCalled
              => /\ RecvOk
                 /\ PreEvents[1].id = 1
                 /\ PreEvents[1].arg = Received(originalStream, NilErr)
                 /\ PreEvents[1].arg = in
                 /\ PreEvents[1].rpc = rpc
        /\ \A k \in 1..Len(ReceiverFrames) :
              /\ Len(PreEvents) = Len(unaryInts)
              /\ ReceiverFrames[k].in1 = NextArg(PreEvents[Len(PreEvents)])
              /\ ReceiverFrames[k].in2 = originalStream
        /\ \A j \in 1..Len(events) :
              events[j].op = "receiver"
                 => /\ events[j].in1 = NextArg(PreEvents[Len(PreEvents)])
                    /\ events[j].in2 = originalStream
                    /\ events[j - 1].op = "handler"

\* The inner of two unary interceptors passed a request of its own to next and
\* the receiver got it, with the original stream.
C29_Witness ==
    /\ UnaryChainPath /\ pc = "done"
    /\ Len(unaryInts) = 2 /\ Len(PreEvents) = 2
    /\ PreEvents[1].arg = PtrMsg("request") /\ PreEvents[1].beh = "forward"
    /\ PreEvents[2].beh = "substitute"
    /\ Count("receiver") = 1
    /\ TheReceiver.in1 = PtrMsg("MODIFIED_2_request")
    /\ TheReceiver.in2 = originalStream

(***************************************************************************)
(* C30.                                                                    *)
(***************************************************************************)

\* A stream interceptor handed a stream of its own to next.
StreamReplaced ==
    /\ Registered /\ ~rpcs[rpc].unitary
    /\ ChainCalled
    /\ \E i \in 1..Len(PreEvents) : PreEvents[i].beh = "substitute"

\* C30: when a stream interceptor passes a replacement stream to next, the
\* receive inside the chain and the receiver use the stream the innermost
\* interceptor passed on, which is not the original, while the dispatcher's
\* final MsgSend or CloseSend is on the original inbound stream.
C30_SendOnOriginal ==
    /\ \A j \in 1..Len(events) :
          events[j].op \in {"MsgSend", "CloseSend"} => events[j].stream = originalStream.val
    /\ StreamReplaced
          => \A j \in 1..Len(events) :
                /\ events[j].op = "MsgRecv"
                      => /\ events[j].stream = InnermostStream.val
                         /\ events[j].stream # originalStream.val
                /\ events[j].op = "receiver"
                      => /\ events[j].in2 = InnermostStream
                         /\ events[j].in2 # originalStream

\* The input was received from the wrapping stream of the outer of two stream
\* interceptors and the response was sent on the original stream.
C30_Witness ==
    /\ StreamReplaced /\ pc = "done"
    /\ rpc = "test.UnaryStreamMethod"
    /\ Len(streamInts) = 2
    /\ Len(PreEvents) = 2
    /\ PreEvents[1].beh = "substitute" /\ PreEvents[2].beh = "forward"
    /\ Count("receiver") = 1
    /\ EventsOf({"MsgRecv"})[1].stream = modifyingStream(1, originalStream).val
    /\ TheReceiver.in2 = modifyingStream(1, originalStream)
    /\ LastEvent.op = "MsgSend"
    /\ LastEvent.stream = "s0"

\* The same with a CloseSend.
C30_WitnessClose ==
    /\ StreamReplaced /\ pc = "done"
    /\ rpc = "test.StreamMethod"
    /\ Count("receiver") = 1
    /\ TheReceiver.in2 # originalStream
    /\ LastEvent = CloseSendEvent(originalStream, NilErr)

(***************************************************************************)
(* C27.                                                                    *)
(***************************************************************************)

\* The behaviours C27 compares: call next once and return what it returned, or
\* return an error without calling next.
Compared == {"forward", "shortErr"}

\* What a composition of list yields when its interceptors behave as behs says
\* (one entry per interceptor that gets to run) and the terminal, if reached,
\* returns termErr: the pre-logic, terminal and post-logic events in order, and
\* the error returned.
Composition(list, behs, termErr) ==
    LET n == Len(list)
        k == Len(behs)
        tag(op, i) == <<op, list[i].flavor, list[i].id>>
    IN  IF behs[k] = "shortErr"
        THEN [trace |-> [i \in 1..(2 * k - 1) |->
                            IF i <= k THEN tag("pre", i) ELSE tag("post", 2 * k - i)],
              err   |-> InterceptorErr(list[k].id)]
        ELSE [trace |-> [i \in 1..(2 * n + 1) |->
                            IF i <= n THEN tag("pre", i)
                            ELSE IF i = n + 1 THEN <<"terminal", "", 0>>
                            ELSE tag("post", 2 * n + 2 - i)],
              err   |-> termErr]

\* The events of a trace that belong to the composition, the terminal closure
\* or function under one name.
CompositionTrace(evs) ==
    LET t == SelectSeq(evs, LAMBDA e : e.op \in {"pre", "post", "handler", "terminal"})
    IN  [i \in 1..Len(t) |->
            IF t[i].op \in {"pre", "post"}
            THEN <<t[i].op, t[i].flavor, t[i].id>> ELSE <<"terminal", "", 0>>]

\* The composed server chain returned to HandleRPC, the composed client chain
\* to Invoke / NewStream, and every interceptor behaved in a compared way.
ServerCompositionReturned == Returned /\ ChainCalled /\ AllBehave(Compared)

ClientCompositionReturned ==
    /\ cpc \in {"return", "done"}
    /\ CPreEvents # <<>>
    /\ ClientAllBehave(Compared)

\* What the terminal returned, NilErr when it did not run.
ServerTerminalErr ==
    IF Count("handlerReturn") = 0 THEN NilErr ELSE EventsOf({"handlerReturn"})[1].err

ClientTerminalErr == IF ConnEvents = <<>> THEN NilErr ELSE ConnEvents[1].err

\* C27: for the same ordered list of interceptors and the same behaviour of
\* each (call next once and forward, or short-circuit with an error), the
\* server-side composition and the client-side composition yield the same
\* sequence of pre-logic, terminal and post-logic events and the same returned
\* error, for the unary and the stream flavour: each equals Composition of the
\* list, the behaviours and the terminal's error.
C27_SameComposition ==
    /\ ServerCompositionReturned
          => [trace |-> CompositionTrace(events), err |-> err]
                = Composition(ChainList,
                              [i \in 1..Len(PreEvents) |-> PreEvents[i].beh],
                              ServerTerminalErr)
    /\ ClientCompositionReturned
          => [trace |-> CompositionTrace(cevents), err |-> cret.err]
                = Composition(ClientList,
                              [i \in 1..Len(CPreEvents) |-> CPreEvents[i].beh],
                              ClientTerminalErr)

\* The client's composition of three stream interceptors returned the error of
\* the terminal.
C27_Witness ==
    /\ ClientCompositionReturned
    /\ ClientList = InterceptorList("stream", 3)
    /\ Len(CPostEvents) = 3
    /\ ClientTerminalErr = NewErr("connErr")
    /\ cret.err = NewErr("connErr")

\* The server's composition of the same list did.
C27_WitnessServer ==
    /\ ServerCompositionReturned
    /\ ChainList = InterceptorList("stream", 3)
    /\ Len(PostEvents) = 3
    /\ ServerTerminalErr = NewErr("receiverErr")
    /\ err = NewErr("receiverErr")

\* Both with the second of three unary interceptors short-circuiting.
C27_WitnessShort ==
    /\ ClientCompositionReturned
    /\ ClientList = InterceptorList("unary", 3)
    /\ Len(CPreEvents) = 2 /\ CPreEvents[2].beh = "shortErr"
    /\ cret.err = InterceptorErr(2)

C27_WitnessShortServer ==
    /\ ServerCompositionReturned
    /\ ChainList = InterceptorList("unary", 3)
    /\ Len(PreEvents) = 2 /\ PreEvents[2].beh = "shortErr"
    /\ err = InterceptorErr(2)

(***************************************************************************)
(* C28.                                                                    *)
(***************************************************************************)

\* The context the latest operation was given and the one it returned.
GivenCtx == ctxs[lastOp.arg]

ReturnedCtx == ctxs[lastOp.ret]

\* The metadata seen through every context that existed before the latest
\* operation is what it was before.
SeenUnchanged ==
    \A j \in 1..(lastOp.ret - 1) : Get(ctxs[j]) = GetFrom(lastOp.before, ctxs[j])

\* C28: ClearContextExcept(ctx, key) returns a context whose metadata is
\* exactly {key: value} when ctx's metadata contains key, and a context with no
\* metadata (Get reports absent) when ctx has no metadata or lacks key;
\* ClearContext(ctx) returns a context with no metadata; in both cases the
\* metadata seen through ctx is unchanged.
C28_ClearKeepsInput ==
    /\ lastOp.op = "ClearContextExcept"
          => LET g == GetFrom(lastOp.before, GivenCtx) IN
             /\ IF g.ok /\ lastOp.key \in DOMAIN g.md
                THEN /\ Get(ReturnedCtx) = [md |-> lastOp.key :> g.md[lastOp.key], ok |-> TRUE]
                     /\ GetValue(ReturnedCtx, lastOp.key)
                           = [val |-> g.md[lastOp.key], ok |-> TRUE]
                     /\ \A k \in MetaKeys \ {lastOp.key} : ~GetValue(ReturnedCtx, k).ok
                ELSE /\ ~Get(ReturnedCtx).ok
                     /\ \A k \in MetaKeys : ~GetValue(ReturnedCtx, k).ok
             /\ SeenUnchanged
    /\ lastOp.op = "ClearContext"
          => /\ ~Get(ReturnedCtx).ok
             /\ \A k \in MetaKeys : ~GetValue(ReturnedCtx, k).ok
             /\ SeenUnchanged

\* ClearContextExcept(ctx, "k1") on a context with two pairs returned a context
\* with the one pair, and ctx still has both.
C28_Witness ==
    /\ lastOp.op = "ClearContextExcept" /\ lastOp.key = "k1"
    /\ Get(GivenCtx) = [md |-> ("k1" :> "v1") @@ ("k2" :> "v2"), ok |-> TRUE]
    /\ Get(ReturnedCtx) = [md |-> "k1" :> "v1", ok |-> TRUE]

\* On a context that lacks the key, and on one without metadata, it returned a
\* context without metadata; so did ClearContext on a context with metadata.
C28_WitnessLacksKey ==
    /\ lastOp.op = "ClearContextExcept" /\ lastOp.key = "k1"
    /\ Get(GivenCtx) = [md |-> "k2" :> "v2", ok |-> TRUE]
    /\ ~Get(ReturnedCtx).ok

C28_WitnessNoMetadata ==
    /\ lastOp.op = "ClearContextExcept"
    /\ GivenCtx = NoMetadata
    /\ ~Get(ReturnedCtx).ok

C28_WitnessClear ==
    /\ lastOp.op = "ClearContext"
    /\ Get(GivenCtx) = [md |-> ("k1" :> "v1") @@ ("k2" :> "v2"), ok |-> TRUE]
    /\ ~Get(ReturnedCtx).ok

(***************************************************************************)
(* C22, C23.  In the specifications of concurrent calls the scheduler can   *)
(* switch at every step, so every call is the running one in some state of  *)
(* every interleaving: what holds of the running call in every reachable    *)
(* state holds of each call under every interleaving.                       *)
(***************************************************************************)

\* What the client interceptor of pre event p handed to next.
ClientNextArgs(p) == IF p.beh = "substitute" THEN SubstituteArgs(p.id, p.args) ELSE p.args

\* The arguments of a call of the underlying connection.
ConnArgs(e) == Args(e.ctx, e.rpc, e.enc, e.in)

\* The running client call sees the configured interceptors in their order,
\* each given what the one before handed on, beginning with the call's own
\* arguments; the underlying connection is called at most once, after all of
\* them, with what the last one handed on; a finished call has run the onion
\* of the configured list, whole or cut at the interceptor that returned
\* without calling next; when no interceptor changed the arguments the
\* underlying call received the call's own.
OwnClientCall ==
    /\ Len(CPreEvents) <= Len(ClientList)
    /\ \A i \in 1..Len(CPreEvents) :
          /\ CPreEvents[i].id = ClientList[i].id
          /\ CPreEvents[i].flavor = ClientFlavor
          /\ CPreEvents[i].args = (IF i = 1 THEN call.args
                                   ELSE ClientNextArgs(CPreEvents[i - 1]))
    /\ Len(ConnEvents) <= 1
    /\ \A i \in 1..Len(ConnEvents) :
          /\ ConnEvents[i].op = ConnOp
          /\ Len(CPreEvents) = Len(ClientList)
          /\ ConnArgs(ConnEvents[i]) = (IF CPreEvents = <<>> THEN call.args
                                        ELSE ClientNextArgs(CPreEvents[Len(CPreEvents)]))
          /\ ClientAllBehave({"forward", "replace"}) => ConnArgs(ConnEvents[i]) = call.args
    /\ ClientDone
          => ClientTrace = (IF ClientShortCircuited
                            THEN ClientShortCircuit(ClientList, Len(CPreEvents))
                            ELSE ClientOnion(ClientList, ConnOp))

\* A step of a client call leaves the locals of the other calls as they are; a
\* switch of the scheduler parks the running call with its locals and resumes
\* another with the locals it was parked with.
OtherClientCallsUntouched ==
    IF self' = self
    THEN parked' = parked
    ELSE /\ parked'[self] = ClientCallLocals
         /\ ClientCallLocals' = parked[self']
         /\ \A d \in DOMAIN parked \ {self'} : parked'[d] = parked[d]

C22_WitnessDone ==
    /\ self = 1 /\ ClientDone
    /\ parked[2].cpc = "done"
    /\ call = [op |-> "Invoke", args |-> Args("ctx", "TestMethod", "testEncoding",
                                              PtrMsg("foobar"))]
    /\ parked[2].call.op = "Invoke" /\ parked[2].call.args.rpc = "TestRPC"
    /\ Len(CPostEvents) = 1 /\ CPreEvents[1].beh = "forward"
    /\ ConnEvents[1].rpc = "TestMethod"
    /\ \E i \in 1..Len(parked[2].cevents) :
          /\ parked[2].cevents[i].op = "Conn.Invoke"
          /\ parked[2].cevents[i].rpc = "TestRPC"

\* The inbound stream of the running call.
OwnStream == StreamOf(self)

\* The stream a wrapping stream is built around.
RECURSIVE Root(_)
Root(stream) == IF "inner" \in DOMAIN stream THEN Root(stream.inner) ELSE stream

\* The streams of the running call: its inbound stream, and what its stream
\* interceptors were given and handed on.
CallStreams ==
    {OwnStream} \cup
    UNION {{PreEvents[i].arg, NextArg(PreEvents[i])} :
              i \in {j \in 1..Len(PreEvents) : PreEvents[j].flavor = "stream"}}

\* What HandleRPC returns for the name it was given and the answers its own
\* stream, interceptors and receiver gave, which is what it returns when it
\* runs alone: a protocol error for an unknown name, the error of the step
\* that failed, nil otherwise, after a MsgSend or CloseSend as the last step.
OutcomeAlone ==
    IF rpc \notin RegisteredNames
    THEN events = <<>> /\ result = ProtocolError(rpc)
    ELSE IF Failures = {}
    THEN /\ LastEvent.op \in {"MsgSend", "CloseSend"}
         /\ result = NilErr
    ELSE \A i \in Failures :
            /\ result.kind = "err"
            /\ result.cause = FailureOf(events[i]).cause
            /\ result.class = FailureOf(events[i]).class

\* Every receive, send and close-send of the running call is on a stream of
\* that call, the receiver is handed one, and a finished call returned what
\* it returns alone.
OwnCall ==
    /\ \A s \in CallStreams : Root(s) = OwnStream
    /\ \A j \in 1..Len(events) :
          /\ events[j].op \in {"MsgRecv", "MsgSend", "CloseSend"}
                => \E s \in CallStreams : events[j].stream = s.val
          /\ events[j].op \in {"MsgSend", "CloseSend"}
                => events[j].stream = OwnStream.val
          /\ events[j].op = "receiver" => Root(events[j].in2) = OwnStream
    /\ Cardinality(Failures) <= 1
    /\ pc = "done" => OutcomeAlone

\* A step of a HandleRPC call leaves the locals of the other calls as they
\* are; a switch parks and resumes them unchanged.
OtherCallsUntouched ==
    IF self' = self
    THEN parked' = parked
    ELSE /\ parked'[self] = CallLocals
         /\ CallLocals' = parked[self']
         /\ \A d \in DOMAIN parked \ {self'} : parked'[d] = parked[d]

\* C23: HandleRPC never modifies the registry of the Mux or its composed
\* chains, and under every interleaving of two concurrent HandleRPC calls on
\* distinct streams every receive, send and close-send of a call is on that
\* call's own stream and each call's outcome is its outcome when run alone.
C23_CallsIsolated ==
    /\ []OwnCall
    /\ [][/\ muxVars' = muxVars
          /\ OtherCallsUntouched]_vars

\* Two calls are inside the stream chain at the same time, each having
\* received from its own stream.
C23_Witness ==
    /\ self = 2 /\ pc = "chain"
    /\ parked[1].pc = "chain"
    /\ rpc = "test.UnaryStreamMethod" /\ parked[1].rpc = "test.UnaryStreamMethod"
    /\ Len(events) = 3 /\ events[3].op = "MsgRecv" /\ events[3].stream = "s2"
    /\ Len(parked[1].events) = 3
    /\ parked[1].events[3].op = "MsgRecv" /\ parked[1].events[3].stream = "s1"

\* Both have returned, one after a send on its stream, the other with the
\* error of its receiver.
C23_WitnessDone ==
    /\ self = 1 /\ pc = "done"
    /\ parked[2].pc = "done"
    /\ events # <<>>
    /\ LastEvent.op = "MsgSend" /\ LastEvent.stream = "s1"
    /\ result = NilErr
    /\ parked[2].result.cause = "receiverErr"

(***************************************************************************)
(* C36.                                                                    *)
(***************************************************************************)

\* C36: Add(ctx, key, value) returns a context on which GetValue(key) yields
\* value, and the metadata seen through ctx and through every other context
\* that shares ctx's metadata is what it was before the Add.
C36_AddKeepsInput ==
    lastOp.op = "Add"
        => /\ GetValue(ReturnedCtx, lastOp.key) = [val |-> lastOp.value, ok |-> TRUE]
           /\ SeenUnchanged

(***************************************************************************)
(* C35.                                                                    *)
(***************************************************************************)

\* HandleRPC got a result with a nil error back from the chain or the receiver.
NilErrorResult == Registered /\ pc \in {"final", "done", "panic"} /\ err.kind = "nil"

\* C35: whatever kind of value the receiver or the composed chain returns with
\* a nil error (absent, a nil pointer, a pointer, a value that is not a
\* pointer), HandleRPC completes by sending the value or by close-sending; it
\* never aborts while testing whether the result is nil.
C35_CompletesNormally ==
    NilErrorResult =>
        /\ pc # "panic"
        /\ pc = "done" => LastEvent.op \in {"MsgSend", "CloseSend"}

(***************************************************************************)
(* C33.                                                                    *)
(***************************************************************************)

\* The ways of returning a message, (nil, nil) or an error without calling next.
ShortReturns == {"shortMsg", "shortNil", "shortErr"}

\* The send-side events of the call.
SendSide == EventsOf({"MsgSend", "CloseSend"})

\* C33 as stated: whenever an interceptor of the chain returned without calling
\* next, the receiver was never invoked and HandleRPC disposed of what that
\* interceptor returned.  An interceptor outside it that returns a message of
\* its own, or that calls next a second time, refutes it.
C33_AsStated ==
    pc = "done" =>
        \A i \in 1..Len(PreEvents) :
            PreEvents[i].beh \in ShortReturns =>
                /\ Count("receiver") = 0
                /\ Disposed(ShortOut(PreEvents[i].beh, PreEvents[i].id),
                            ShortErr(PreEvents[i].beh, PreEvents[i].id), SendSide)

\* The interceptor that ran last returned without calling next, and all that
\* ran before it called next once and returned its result unchanged.
ShortReturned ==
    /\ pc = "done" /\ ChainCalled
    /\ PreEvents[Len(PreEvents)].beh \in ShortReturns
    /\ \A i \in 1..(Len(PreEvents) - 1) : PreEvents[i].beh \in Forwarding

\* C33 (amended): if a server interceptor returns without calling next, while
\* the interceptors outside it each call next once and return its result
\* unchanged, the receiver is never invoked and the dispatcher disposes of the
\* interceptor's own return value: (non-nil message, nil error) is sent on the
\* stream, (nil, nil) leads to CloseSend, and a non-nil error is returned
\* without any send-side action.
C33_ShortReturnIsDisposed ==
    ShortReturned =>
        LET p == PreEvents[Len(PreEvents)] IN
        /\ ChainTrace = ShortCircuit(p.id)
        /\ Count("receiver") = 0
        /\ Count("handler") = 0
        /\ Disposed(ShortOut(p.beh, p.id), ShortErr(p.beh, p.id), SendSide)

\* The second of two stream interceptors returned a message of its own without
\* calling next, and the message was sent.
C33_Witness ==
    /\ ShortReturned
    /\ ChainFlavor = "stream" /\ Len(PreEvents) = 2
    /\ PreEvents[2].beh = "shortMsg"
    /\ LastEvent.op = "MsgSend" /\ LastEvent.msg = Replacement(2)

\* The second of two unary interceptors returned (nil, nil), and an only
\* interceptor an error.
C33_WitnessNil ==
    /\ ShortReturned
    /\ ChainFlavor = "unary" /\ Len(PreEvents) = 2
    /\ PreEvents[2].beh = "shortNil"
    /\ LastEvent.op = "CloseSend"

C33_WitnessErr ==
    /\ ShortReturned
    /\ Len(PreEvents) = 1 /\ PreEvents[1].beh = "shortErr"
    /\ SendSide = <<>>
    /\ result = Wrap(InterceptorErr(1))

(***************************************************************************)
(* C31.                                                                    *)
(***************************************************************************)

\* The runs of an interceptor that called next.
CallingPreEvents == SelectSeq(PreEvents, LAMBDA p : p.beh \notin ShortCircuits)

\* What came back to HandleRPC, whatever the interceptors do: what the
\* outermost interceptor returned on a chain path, what the receiver returned
\* otherwise.
CameBack ==
    IF ChainCalled
    THEN IF PreEvents[1].beh \in ShortCircuits
         THEN [out |-> ShortOut(PreEvents[1].beh, PreEvents[1].id),
               err |-> ShortErr(PreEvents[1].beh, PreEvents[1].id)]
         ELSE [out |-> PostEvents[Len(PostEvents)].out,
               err |-> PostEvents[Len(PostEvents)].err]
    ELSE [out |-> TheReceiver.out, err |-> TheReceiver.err]

\* Every interceptor and terminal handler that was called has returned.
FullyReturned ==
    /\ stack = <<>>
    /\ Len(PostEvents) = Len(CallingPreEvents)
    /\ Count("handlerReturn") = Count("handler")

\* C31: whatever the interceptors and the receiver do, interceptors calling
\* next zero times or several times included, a HandleRPC call performs at
\* most one send-side action (one MsgSend or one CloseSend), performs it as its
\* last step, after the chain has fully returned, and performs none when what
\* came back to it from the chain or the receiver has a non-nil error.
C31_OneSendSideAction ==
    /\ Len(SendSide) <= 1
    /\ \A i \in 1..Len(events) :
          events[i].op \in {"MsgSend", "CloseSend"}
              => /\ i = Len(events)
                 /\ pc = "done"
                 /\ FullyReturned
                 /\ events[i].stream = originalStream.val
                 /\ Invoked => CameBack.err.kind = "nil"
    /\ (pc \in {"done", "panic"} /\ Invoked /\ CameBack.err.kind # "nil")
          => SendSide = <<>>

\* An interceptor called next twice, the receiver ran twice, and the call ended
\* with the one MsgSend.
C31_Witness ==
    /\ pc = "done"
    /\ Count("again") = 1 /\ Count("receiver") = 2
    /\ Len(PreEvents) = 3
    /\ SendSide = <<LastEvent>> /\ LastEvent.op = "MsgSend"

\* No interceptor called next, and the call ended with the one CloseSend; the
\* chain returned an error after the receiver had run twice, and nothing was
\* sent; the receiver's error was dropped by an interceptor, and the call ended
\* with a CloseSend.
C31_WitnessZero ==
    /\ pc = "done" /\ ChainCalled
    /\ CallingPreEvents = <<>>
    /\ SendSide = <<LastEvent>> /\ LastEvent.op = "CloseSend"

C31_WitnessError ==
    /\ pc = "done"
    /\ Count("again") = 1 /\ Count("receiver") = 2
    /\ CameBack.err.kind # "nil"
    /\ SendSide = <<>>

C31_WitnessDropped ==
    /\ pc = "done" /\ Count("receiver") = 1
    /\ TheReceiver.err.kind # "nil" /\ TheReceiver.out.kind = "absent"
    /\ LastEvent.op = "CloseSend"

(***************************************************************************)
(* C32.                                                                    *)
(***************************************************************************)

\* The positions in the trace of the receives that failed.
FailedRecvs == {i \in 1..Len(events) : events[i].op = "MsgRecv" /\ events[i].err.kind # "nil"}

\* Interceptor k has run its pre-logic before position i.
PreLogicBefore(k, i) == \E j \in 1..(i - 1) : events[j].op = "pre" /\ events[j].id = k

\* Every interceptor that called next returned the error next returned.
ErrorsReturned == AllBehave(AllBehaviours \ {"swallow"})

\* C32: for a unary-input/stream-output rpc dispatched through the stream
\* chain, when the receive inside the chain fails, the terminal handler does
\* not invoke the receiver, the pre-logic of every interceptor has run, and
\* the innermost interceptor gets (nil, the receive error) as the outcome of
\* next; HandleRPC then returns what follows from the outermost interceptor's
\* return: its error, wrapped, the receive error when the interceptors return
\* the error they got, and the result of the send or close-send when it
\* returned no error.
C32_RecvFailureInsideChain ==
    UnaryInStreamOutChain =>
        /\ \A i \in FailedRecvs :
              /\ events[i - 1].op = "handler"
              /\ \A k \in 1..Len(streamInts) : PreLogicBefore(k, i)
              /\ Len(events) > i
              /\ events[i + 1] = HandlerReturnEvent(AbsentMsg, Wrap(events[i].err))
              /\ IF Len(events) = i + 1
                 THEN /\ pc = "chain"
                      /\ Top.fn = "interceptor" /\ Top.phase = "wait"
                      /\ Top.id = Len(streamInts)
                      /\ out = AbsentMsg
                      /\ err = Wrap(events[i].err)
                 ELSE /\ events[i + 2].op \in {"post", "again"}
                      /\ events[i + 2].id = Len(streamInts)
              /\ Count("again") = 0 => Count("receiver") = 0
              /\ (pc = "done" /\ Count("again") = 0 /\ ErrorsReturned)
                    => /\ result.kind = "err"
                       /\ SendSide = <<>>
                       /\ AllBehave(Forwarding) => result = Wrap(events[i].err)
        /\ (pc = "done" /\ FailedRecvs # {})
              => Disposed(CameBack.out, CameBack.err, SendSide)

\* The receive inside a chain of two forwarding stream interceptors failed, and
\* HandleRPC returned the receive error.
C32_Witness ==
    /\ UnaryInStreamOutChain /\ pc = "done"
    /\ Len(streamInts) = 2 /\ AllBehave({"forward"})
    /\ FailedRecvs # {}
    /\ result = Wrap(NewErr("recvErr"))
    /\ Count("receiver") = 0

\* The innermost interceptor has just got the outcome of next; the outermost
\* interceptor dropped the error and HandleRPC returned what CloseSend did.
C32_WitnessDelivered ==
    /\ UnaryInStreamOutChain /\ pc = "chain"
    /\ Len(streamInts) = 2
    /\ FailedRecvs = {Len(events) - 1}
    /\ Top.id = 2

C32_WitnessDropped ==
    /\ UnaryInStreamOutChain /\ pc = "done"
    /\ FailedRecvs # {} /\ Count("again") = 0
    /\ PreEvents[1].beh = "swallow"
    /\ LastEvent.op = "CloseSend" /\ result = NewErr("closeErr")

(***************************************************************************)
(* C34.                                                                    *)
(***************************************************************************)

\* The interceptor and terminal events of a trace and the repeated calls of
\* next, in order, under the names both sides share.
RepeatTrace(evs) ==
    LET t == SelectSeq(evs, LAMBDA e : e.op \in {"pre", "post", "again", "handler",
                                                  "terminal"})
    IN  [i \in 1..Len(t) |->
            IF t[i].op \in {"pre", "post", "again"}
            THEN <<t[i].op, t[i].flavor, t[i].id>> ELSE <<"terminal", "", 0>>]

Agains(evs) == SelectSeq(evs, LAMBDA e : e.op = "again")

Pres(evs) == SelectSeq(evs, LAMBDA e : e.op = "pre")

\* How often interceptor i and the terminal ran.
RunsOf(evs, i) == Len(SelectSeq(evs, LAMBDA e : e.op = "pre" /\ e.id = i))

TerminalRuns(evs) == Len(SelectSeq(evs, LAMBDA e : e.op \in {"handler", "terminal"}))

\* How often the outermost interceptor called next.
OutermostCalls(evs) ==
    (IF Pres(evs)[1].beh \in ShortCircuits THEN 0 ELSE 1)
        + Len(SelectSeq(evs, LAMBDA e : e.op = "again" /\ e.id = 1))

OneRepeats(evs) ==
    /\ \A i \in 1..Len(Pres(evs)) : Pres(evs)[i].beh \notin ShortCircuits
    /\ \A i, j \in 1..Len(Agains(evs)) : Agains(evs)[i].id = Agains(evs)[j].id

\* The interceptor that called next more than once (the innermost when none
\* did), and how often it called next.
Repeater(evs, n) == IF Agains(evs) = <<>> THEN n ELSE Agains(evs)[1].id

Times(evs) == 1 + Len(Agains(evs))

\* pre of list[1..k]; then m times pre of list[k+1..n], the terminal, post of
\* list[n..k+1], with list[k]'s next call of next between two runs; then post
\* of list[k..1].
RepeatedOnion(list, k, m) ==
    LET n == Len(list)
        run == 2 * (n - k) + 1
        tag(op, i) == <<op, list[i].flavor, list[i].id>>
    IN  [i \in 1..(2 * k + m * run + (m - 1)) |->
            IF i <= k THEN tag("pre", i)
            ELSE IF i > k + m * run + (m - 1) THEN tag("post", 2 * k + m * run + m - i)
            ELSE LET r == ((i - k - 1) % (run + 1)) + 1 IN
                 IF r = run + 1 THEN tag("again", k)
                 ELSE IF r <= n - k THEN tag("pre", k + r)
                 ELSE IF r = n - k + 1 THEN <<"terminal", "", 0>>
                 ELSE tag("post", 2 * n - k + 2 - r)]

\* The composed server chain returned to HandleRPC, the composed client chain
\* to Invoke / NewStream.
ServerChainReturned == Returned /\ ChainCalled

ClientChainReturned == cpc \in {"return", "done"} /\ CPreEvents # <<>>

\* Two traces of calls of the same composed function in which no interceptor
\* called next twice and every interceptor that ran in both did the same.
SameDoings(e1, e2) ==
    /\ Pres(e1) # <<>> /\ Pres(e2) # <<>>
    /\ Pres(e1)[1].flavor = Pres(e2)[1].flavor
    /\ Agains(e1) = <<>> /\ Agains(e2) = <<>>
    /\ \A i \in 1..Len(Pres(e1)) : \A j \in 1..Len(Pres(e2)) :
          Pres(e1)[i].id = Pres(e2)[j].id => Pres(e1)[i].beh = Pres(e2)[j].beh

C34_WitnessThrice ==
    /\ ServerChainReturned /\ OneRepeats(events)
    /\ Len(ChainList) = 1 /\ Times(events) = 3 /\ TerminalRuns(events) = 3

\* The outer of two unary client interceptors called next twice.
C34_WitnessClient ==
    /\ ClientChainReturned /\ OneRepeats(cevents)
    /\ call.op = "Invoke" /\ Len(ClientList) = 2
    /\ Repeater(cevents, 2) = 1 /\ Times(cevents) = 2
    /\ TerminalRuns(cevents) = 2

\* The second HandleRPC call on the Mux went through the chain the first one
\* went through, with the interceptor forwarding both times.
C34_WitnessLater ==
    /\ self = 2 /\ pc = "done"
    /\ parked[1].pc = "done" /\ SameDoings(parked[1].events, events)
    /\ PreEvents[1].beh = "forward"

\* The second Invoke on the ClientConn went through the chain of the first.
C34_WitnessLaterClient ==
    /\ self = 2 /\ cpc = "done" /\ call.op = "Invoke"
    /\ parked[1].cpc = "done" /\ SameDoings(parked[1].cevents, cevents)
    /\ CPreEvents[1].beh = "forward"

====
